---- MODULE Spec2Model ----
(***************************************************************************)
(* A model of two passes of TSAR (Traits Static Analyzer):                 *)
(*   - APCDVMHWriter (lib/APC/DVMHWriter.cpp): the pass that writes DVMH   *)
(*     data-distribution directives (align, array, inherit, template)      *)
(*     into the sources, with its ledger of transformed files and of       *)
(*     inserted directives;                                                *)
(*   - ClangDVMHSMParallelization (lib/Transform/Clang/DVMHSMAutoPar.cpp): *)
(*     the loop-nest classification that builds Parallel/Region items.     *)
(***************************************************************************)
EXTENDS Integers, Sequences, FiniteSets, TLC

(***************************************************************************)
(* Bounds of the model.                                                    *)
(***************************************************************************)
\* Offsets inside a file buffer are 0..MaxOff.
MaxOff == 1
\* Number of direct calls of the ledger operations in SpecLedger.
MaxCalls == 3

(***************************************************************************)
(* Source manager: files, their representations (FileID) and locations.    *)
(***************************************************************************)
\* FileIDs known to the source manager. FileID 2 and 3 are two representations
\* of the same include file (it is included twice, or loaded by two merged
\* translation units); 1 and 4 are main files.
FileIDs == 1..4

\* SourceManager::getFilename of a FileID.
FileTable == <<"a.c", "h.h", "h.h", "b.c">>

FileNames == {FileTable[f] : f \in FileIDs}

\* SrcMgr.getDecomposedIncludedLoc(FID).first.isValid(): the file is included.
IsIncludeFile(fid) == FileTable[fid] = "h.h"

Offsets == 0..MaxOff

\* A file location is (FileID, offset); its raw encoding is the pair itself.
FileLocs == [fid : FileIDs, off : Offsets]

\* A location inside a macro expansion (SourceLocation::isMacroID()).
MacroLoc == [fid |-> 0, off |-> 0]

\* The invalid (default constructed) SourceLocation.
InvalidLoc == [fid |-> -1, off |-> 0]

isMacroID(Loc) == Loc.fid = 0

isValid(Loc) == Loc.fid # -1

getFilename(Loc) == FileTable[Loc.fid]

\* Lines of every buffer are two characters long: even offsets start a line.
getStartOfLine(Loc) == [Loc EXCEPT !.off = Loc.off - (Loc.off % 2)]

\* The physical position a location denotes, whatever its representation.
PhysOf(Loc) == <<getFilename(Loc), Loc.off>>

(***************************************************************************)
(* Directive texts. A text is a triple of strings <<kind, a, b>>.          *)
(***************************************************************************)
NoDir == <<>>

NewLine == <<"\n", "", "">>

\* getPragmaText(DirectiveId::DvmArray, Array)
ArrayText == <<"array", "", "">>

\* Align text of an align rule: it names the aligned dimensions and the
\* template, not the array.
AlignTextOf(rule, tpl) == <<"align", rule, tpl>>

\* Texts used when the ledger operations are called directly.
DirTexts == {AlignTextOf("[i]", "T1"), ArrayText}

(***************************************************************************)
(* Diagnostics.                                                            *)
(***************************************************************************)
Diag(id, loc, arg) == [id |-> id, loc |-> loc, arg |-> arg]

toDiag(S, id, loc, arg) == [S EXCEPT !.diags = Append(@, Diag(id, loc, arg))]

(***************************************************************************)
(* The state of the writer is handled as a record S:                       *)
(*   tf    mTransformedFiles: file name -> FileID (0: not transformed)     *)
(*   dirs  mInsertedDirs: location -> directive text (NoDir: none)         *)
(*   rw    the Rewriter: location -> texts inserted there, in text order   *)
(*   diags the diagnostics reported so far                                 *)
(*   log   history of the calls of insertDataDirective/insertDirective     *)
(***************************************************************************)
EmptyLedger ==
  [tf    |-> [n \in FileNames |-> 0],
   dirs  |-> [l \in FileLocs |-> NoDir],
   rw    |-> [l \in FileLocs |-> <<>>],
   diags |-> <<>>,
   log   |-> <<>>]

\* Rewriter::InsertTextBefore(Loc, Str): the text goes before the text already
\* inserted at Loc.
InsertTextBefore(S, Loc, Str) == [S EXCEPT !.rw[Loc] = <<Str>> \o @]

\* A slip in the ledger: the inserted directive is not recorded.
dirs_try_emplace_forget(S, Loc, Str) == S

\* StringMap/DenseMap::try_emplace: an existing entry is kept.
tf_try_emplace(S, name, fid) ==
  IF S.tf[name] = 0 THEN [S EXCEPT !.tf[name] = fid] ELSE S

dirs_try_emplace(S, Loc, Str) ==
  IF S.dirs[Loc] = NoDir THEN [S EXCEPT !.dirs[Loc] = Str] ELSE S

Logged(S, fn, DeclLoc, Where, Str, res) ==
  [S EXCEPT !.log = Append(@, [fn |-> fn, declLoc |-> DeclLoc, where |-> Where,
                               text |-> Str, res |-> res])]

\* A resolution which does not look at the transformed files.
getLocationToTransform_asis(S, Loc) == Loc

\* APCDVMHWriter::getLocationToTransform
getLocationToTransform(S, Loc) ==
  LET Filename == getFilename(Loc) IN
  IF S.tf[Filename] = 0 THEN Loc
  ELSE [fid |-> S.tf[Filename], off |-> Loc.off]

\* A slip in insertDirective: a different directive replaces the recorded one.
insertDirective_overwrite(S, Where0, DirStr) ==
  LET Where == getLocationToTransform(S, Where0) IN
  IF S.dirs[Where] = DirStr THEN S
  ELSE
    LET S1 == InsertTextBefore(S, Where, DirStr)
        S2 == IF Where # getStartOfLine(Where)
              THEN InsertTextBefore(S1, Where, NewLine) ELSE S1
        S3 == tf_try_emplace(S2, getFilename(Where), Where.fid)
    IN [S3 EXCEPT !.dirs[Where] = DirStr]

\* APCDVMHWriter::insertDirective
insertDirective(S, Where0, DirStr) ==
  LET Where == getLocationToTransform(S, Where0) IN
  IF S.dirs[Where] # NoDir THEN
    IF S.dirs[Where] = DirStr THEN S
    ELSE toDiag(toDiag(S, "err_apc_insert_dvm_directive", Where, DirStr),
                "note_apc_insert_multiple_directives", Where, NoDir)
  ELSE
    LET S1 == InsertTextBefore(S, Where, DirStr)
        S2 == IF Where # getStartOfLine(Where)
              THEN InsertTextBefore(S1, Where, NewLine) ELSE S1
        S3 == tf_try_emplace(S2, getFilename(Where), Where.fid)
    IN dirs_try_emplace(S3, Where, DirStr)

\* APCDVMHWriter::insertDirective as the other revision of DVMHWriter.cpp
\* has it: the error branch is taken for a different text only, and an equal
\* text goes on to the insertion.
insertDirectiveOld(S, Where0, DirStr) ==
  LET Where == getLocationToTransform(S, Where0) IN
  IF S.dirs[Where] # NoDir /\ S.dirs[Where] # DirStr THEN
    toDiag(toDiag(S, "err_apc_insert_dvm_directive", Where, DirStr),
           "note_apc_insert_multiple_directives", Where, NoDir)
  ELSE
    LET S1 == InsertTextBefore(S, Where, DirStr)
        S2 == IF Where # getStartOfLine(Where)
              THEN InsertTextBefore(S1, Where, NewLine) ELSE S1
        S3 == tf_try_emplace(S2, getFilename(Where), Where.fid)
    IN dirs_try_emplace(S3, Where, DirStr)

\* What a call of insertDirective did, for the history: S is the state before
\* the call and S2 the state after it.
DirectiveOutcome(S, S2) ==
  IF S2.diags # S.diags THEN "conflict"
  ELSE IF S2.rw # S.rw THEN "inserted"
  ELSE IF S2.dirs # S.dirs \/ S2.tf # S.tf THEN "ledger"
  ELSE "same"

LoggedOutcome(S, S2, fn, DeclLoc, Where, DirStr) ==
  Logged(S2, fn, DeclLoc, Where, DirStr, DirectiveOutcome(S, S2))

\* insertDirective together with its entry in the history of calls.
insertDirectiveLogged(S, fn, DeclLoc, Where, DirStr) ==
  LoggedOutcome(S, insertDirective(S, Where, DirStr), fn, DeclLoc, Where, DirStr)

insertDirectiveOldLogged(S, fn, DeclLoc, Where, DirStr) ==
  LoggedOutcome(S, insertDirectiveOld(S, Where, DirStr), fn, DeclLoc, Where, DirStr)

(***************************************************************************)
(* DeclarationInfoMap: declaration location -> "none" (no entry),          *)
(* "single" (IsSingleDeclStmt = true) or "multi" (false).                  *)
(***************************************************************************)
\* A slip in insertDataDirective: a macro location is passed over in silence.
insertDataDirective_silent(S, DeclLoc, Decls, Where, DirStr) ==
  IF isMacroID(Where) THEN
    Logged(S, "insertDataDirective", DeclLoc, Where, DirStr, "macro")
  ELSE IF Decls[DeclLoc] = "none" \/ Decls[DeclLoc] = "single" THEN
    insertDirectiveLogged(S, "insertDataDirective", DeclLoc, Where, DirStr)
  ELSE
    Logged(toDiag(toDiag(S, "err_apc_insert_dvm_directive", Where, DirStr),
                  "note_apc_not_single_decl_stmt", DeclLoc, NoDir),
           "insertDataDirective", DeclLoc, Where, DirStr, "notsingle")

\* A slip in insertDataDirective: the flag of the declaration is not looked at.
insertDataDirective_unchecked(S, DeclLoc, Decls, Where, DirStr) ==
  IF isMacroID(Where) THEN
    Logged(toDiag(toDiag(S, "err_apc_insert_dvm_directive", Where, DirStr),
                  "note_apc_insert_macro_prevent", DeclLoc, NoDir),
           "insertDataDirective", DeclLoc, Where, DirStr, "macro")
  ELSE insertDirectiveLogged(S, "insertDataDirective", DeclLoc, Where, DirStr)

\* APCDVMHWriter::insertDataDirective
insertDataDirective(S, DeclLoc, Decls, Where, DirStr) ==
  IF isMacroID(Where) THEN
    Logged(toDiag(toDiag(S, "err_apc_insert_dvm_directive", Where, DirStr),
                  "note_apc_insert_macro_prevent", DeclLoc, NoDir),
           "insertDataDirective", DeclLoc, Where, DirStr, "macro")
  ELSE IF Decls[DeclLoc] = "none" \/ Decls[DeclLoc] = "single" THEN
    insertDirectiveLogged(S, "insertDataDirective", DeclLoc, Where, DirStr)
  ELSE
    Logged(toDiag(toDiag(S, "err_apc_insert_dvm_directive", Where, DirStr),
                  "note_apc_not_single_decl_stmt", DeclLoc, NoDir),
           "insertDataDirective", DeclLoc, Where, DirStr, "notsingle")

\* APCDVMHWriter::insertDataDirective of the other revision: the entry of the
\* declaration must exist (an assertion), so Decls[DeclLoc] is never "none".
insertDataDirectiveOld(S, DeclLoc, Decls, Where, DirStr) ==
  IF isMacroID(Where) THEN
    Logged(toDiag(toDiag(S, "err_apc_insert_dvm_directive", Where, DirStr),
                  "note_apc_insert_macro_prevent", DeclLoc, NoDir),
           "insertDataDirective", DeclLoc, Where, DirStr, "macro")
  ELSE IF Decls[DeclLoc] = "single" THEN
    insertDirectiveOldLogged(S, "insertDataDirective", DeclLoc, Where, DirStr)
  ELSE
    Logged(toDiag(toDiag(S, "err_apc_insert_dvm_directive", Where, DirStr),
                  "note_apc_not_single_decl_stmt", DeclLoc, NoDir),
           "insertDataDirective", DeclLoc, Where, DirStr, "notsingle")

(***************************************************************************)
(* The translation unit (input of the pass).                               *)
(*                                                                         *)
(* A redeclaration of a variable is                                        *)
(*   [kind, loc, start, aliases]                                           *)
(* kind: VarDecl::isThisDeclarationADefinition(); loc: getLocation(), the  *)
(* position of the declared name, (fid, off, d) with d the index of the    *)
(* declarator in its statement; start: getLocStart(); aliases: the other   *)
(* locations ASTImportInfo::RedeclLocs records for a merged redeclaration, *)
(* as pairs [loc, start].                                                  *)
(***************************************************************************)
Kinds == {"Definition", "DeclarationOnly", "TentativeDefinition"}

InvalidDeclLoc == [fid |-> -1, off |-> 0, d |-> 0]

DeclLocs == [fid : FileIDs, off : Offsets, d : 1..3]

DeclLocAt(site, d) == [fid |-> site.fid, off |-> site.off, d |-> d]

\* SrcMgr.getFileID(Loc) followed by getDecomposedIncludedLoc(FID).first.isValid():
\* the entry of a macro expansion has a valid upper location (its expansion point).
IsIncludedLoc(Loc) == isMacroID(Loc) \/ IsIncludeFile(Loc.fid)

\* The other representation of an include file.
OtherRepresentation(fid) == IF fid = 2 THEN 3 ELSE IF fid = 3 THEN 2 ELSE fid

\* VarDecl::getDefinition(): the redeclaration that is a definition, if any.
RECURSIVE FirstDefinition(_, _)
FirstDefinition(redecls, i) ==
  IF i > Len(redecls) THEN 0
  ELSE IF redecls[i].kind = "Definition" THEN i
  ELSE FirstDefinition(redecls, i + 1)

getDefinition(VD) == FirstDefinition(VD.redecls, 1)

(***************************************************************************)
(* APCDVMHWriter::initializeDeclInfo                                       *)
(***************************************************************************)
\* Only the later declaration of a statement is marked.
checkSingleDecl_later(St, StartLoc, Loc) ==
  IF StartLoc \in DOMAIN St.first THEN
    [St EXCEPT !.decls = [@ EXCEPT ![Loc] = "multi"]]
  ELSE
    [first |-> [l \in DOMAIN St.first \cup {StartLoc} |->
                  IF l = StartLoc THEN Loc ELSE St.first[l]],
     decls |-> [St.decls EXCEPT ![Loc] = "single"]]

\* The lambda checkSingleDecl. St is [first, decls]: FirstGlobalAtLoc (start ->
\* location of the first global found there) and the DeclarationInfoMap.
checkSingleDecl(St, StartLoc, Loc) ==
  IF StartLoc \in DOMAIN St.first THEN
    [St EXCEPT !.decls = [@ EXCEPT ![St.first[StartLoc]] = "multi", ![Loc] = "multi"]]
  ELSE
    [first |-> [l \in DOMAIN St.first \cup {StartLoc} |->
                  IF l = StartLoc THEN Loc ELSE St.first[l]],
     decls |-> [St.decls EXCEPT ![Loc] = "single"]]

\* for (I = 0; I < Locs.size(); ++I) checkSingleDecl(StartLocs[I], Locs[I])
RECURSIVE checkMergedLocs(_, _, _)
checkMergedLocs(St, locs, i) ==
  IF i > Len(locs) THEN St
  ELSE checkMergedLocs(checkSingleDecl(St, locs[i].start, locs[i].loc), locs, i + 1)

\* Locations of a redeclaration as MergedLocations::find returns them: the
\* original location first, then the merged ones.
MergedLocs(R) == <<[loc |-> R.loc, start |-> R.start]>> \o R.aliases

\* One top-level VarDecl of the unit.
initGlobalVarDecl(St, R) ==
  IF R.aliases = <<>> THEN checkSingleDecl(St, R.start, R.loc)
  ELSE checkMergedLocs(St, MergedLocs(R), 1)

RECURSIVE initGlobalRedecls(_, _, _)
initGlobalRedecls(St, redecls, i) ==
  IF i > Len(redecls) THEN St
  ELSE initGlobalRedecls(initGlobalVarDecl(St, redecls[i]), redecls, i + 1)

\* A FunctionDecl of the unit: the variables declared in a function with a body
\* (its parameters and locals) get IsSingleDeclStmt = false.
RECURSIVE initFunctionDecls(_, _, _)
initFunctionDecls(St, locs, i) ==
  IF i > Len(locs) THEN St
  ELSE initFunctionDecls([St EXCEPT !.decls[locs[i]] = "multi"], locs, i + 1)

\* for (auto *D : Unit.decls()): D is one element of unit.decls, either
\* [isFunc |-> TRUE, hasBody, declLocs] or [isFunc |-> FALSE, redecl].
RECURSIVE initializeDeclInfoLoop(_, _, _)
initializeDeclInfoLoop(St, decls, i) ==
  IF i > Len(decls) THEN St
  ELSE LET D == decls[i] IN
    initializeDeclInfoLoop(
      IF D.isFunc
      THEN (IF D.hasBody THEN initFunctionDecls(St, D.declLocs, 1) ELSE St)
      ELSE initGlobalVarDecl(St, D.redecl),
      decls, i + 1)

EmptyDecls == [l \in DeclLocs |-> "none"]

initializeDeclInfo(unitDecls) ==
  initializeDeclInfoLoop([first |-> <<>>, decls |-> EmptyDecls], unitDecls, 1).decls

(***************************************************************************)
(* APCDVMHWriter::insertAlignment. The result is [S, DefinitionLoc].       *)
(***************************************************************************)
\* Directives for the location aliases of a merged redeclaration.
RECURSIVE insertAliasArrays(_, _, _, _, _)
insertAliasArrays(S, Decls, R, locs, i) ==
  IF i > Len(locs) THEN S
  ELSE insertAliasArrays(
         IF locs[i].loc = R.loc THEN S
         ELSE insertDataDirective(S, locs[i].loc, Decls, locs[i].start, ArrayText),
         Decls, R, locs, i + 1)

\* if (ImportInfo.RedeclLocs.find(Redecl) has merged locations) ...: the
\* directives for the aliases follow the directive of the redeclaration.
insertRedeclAliases(X1, Decls, R) ==
  IF R.aliases # <<>>
  THEN [X1 EXCEPT !.S = insertAliasArrays(X1.S, Decls, R, MergedLocs(R), 1)]
  ELSE X1

\* switch (Redecl->isThisDeclarationADefinition())
insertRedeclDirective(X, Decls, Align, R) ==
  CASE R.kind = "Definition" -> X
    [] R.kind = "DeclarationOnly" ->
         [X EXCEPT !.S = insertDataDirective(X.S, R.loc, Decls, R.start, ArrayText)]
    [] R.kind = "TentativeDefinition" ->
         IF ~isValid(X.DefinitionLoc) THEN
           IF IsIncludedLoc(R.start) THEN
             [X EXCEPT !.S = insertDataDirective(X.S, R.loc, Decls, R.start, ArrayText)]
           ELSE
             [S |-> insertDataDirective(X.S, R.loc, Decls, R.start, Align),
              DefinitionLoc |-> R.loc]
         ELSE
           [S |-> insertDataDirective(X.S, R.loc, Decls, R.start, Align),
            DefinitionLoc |-> R.loc]

\* The body of the loop over VD->getFirstDecl()->redecls().
insertAlignmentRedecl(X, Decls, Align, R) ==
  insertRedeclAliases(insertRedeclDirective(X, Decls, Align, R), Decls, R)

RECURSIVE insertAlignmentLoop(_, _, _, _, _)
insertAlignmentLoop(X, Decls, Align, redecls, i) ==
  IF i > Len(redecls) THEN X
  ELSE insertAlignmentLoop(insertAlignmentRedecl(X, Decls, Align, redecls[i]),
                           Decls, Align, redecls, i + 1)

\* if (DefinitionLoc.isInvalid()) toDiag(...)
reportNoDefinition(X, VD, Align) ==
  IF ~isValid(X.DefinitionLoc)
  THEN [X EXCEPT !.S = toDiag(toDiag(X.S, "err_apc_insert_dvm_directive",
                                     VD.redecls[1].loc, Align),
                              "note_apc_no_proper_definition", InvalidLoc,
                              <<"name", VD.name, "">>)]
  ELSE X

\* if (auto *Def = VD->getDefinition()) { ... }
insertDefinitionAlign(S, Decls, VD, Align, d) ==
  IF d # 0
  THEN [S |-> insertDataDirective(S, VD.redecls[d].loc, Decls,
                                  VD.redecls[d].start, Align),
        DefinitionLoc |-> VD.redecls[d].loc]
  ELSE [S |-> S, DefinitionLoc |-> InvalidDeclLoc]

insertAlignment(S, Decls, AR, VD) ==
  reportNoDefinition(
    insertAlignmentLoop(
      insertDefinitionAlign(S, Decls, VD, AlignTextOf(AR.rule, AR.alignWith),
                            getDefinition(VD)),
      Decls, AlignTextOf(AR.rule, AR.alignWith), VD.redecls, 1),
    VD, AlignTextOf(AR.rule, AR.alignWith))

(***************************************************************************)
(* APCDVMHWriter::insertInherit                                            *)
(*                                                                         *)
(* A function redeclaration is [loc, start, hasBody, params]; a parameter  *)
(* is [name, loc] (name "" when the redeclaration leaves it unnamed). An   *)
(* argument of InheritArgs is [name, arg]: DIArg->getName(), getArg().     *)
(***************************************************************************)
ParenText(name) == <<"(", name, ")">>

\* The lambda `insert`. Y is [S, names, macros]: the writer state, the names
\* added to the clause and UnnamedArgsInMacro.
inheritInsertArg(Y, Redecl, DIArg) ==
  LET Param == Redecl.params[DIArg.arg] IN
  IF Param.name = "" THEN
    IF isMacroID(Param.loc) THEN
      [Y EXCEPT !.names = Append(@, DIArg.name),
                !.macros = Append(@, [loc |-> Param.loc, name |-> DIArg.name])]
    ELSE
      [Y EXCEPT !.names = Append(@, DIArg.name),
                !.S = InsertTextBefore(Y.S, Param.loc, ParenText(DIArg.name))]
  ELSE [Y EXCEPT !.names = Append(@, Param.name)]

RECURSIVE inheritInsertArgs(_, _, _, _)
inheritInsertArgs(Y, Redecl, InheritArgs, i) ==
  IF i > Len(InheritArgs) THEN Y
  ELSE inheritInsertArgs(inheritInsertArg(Y, Redecl, InheritArgs[i]),
                         Redecl, InheritArgs, i + 1)

\* The names of a clause separated by commas.
RECURSIVE JoinNames(_, _)
JoinNames(names, i) ==
  IF i > Len(names) THEN ""
  ELSE IF i = Len(names) THEN names[i]
  ELSE names[i] \o "," \o JoinNames(names, i + 1)

InheritTextOf(names) == <<"inherit", JoinNames(names, 1), "">>

RECURSIVE inheritMacroNotes(_, _, _)
inheritMacroNotes(S, macros, i) ==
  IF i > Len(macros) THEN S
  ELSE inheritMacroNotes(
         toDiag(S, "note_decl_insert_macro_prevent", macros[i].loc,
                <<"name", macros[i].name, "">>),
         macros, i + 1)

\* The body of the loop over FD->getFirstDecl()->redecls().
insertInheritRedecl(S, Decls, Redecl, InheritArgs) ==
  LET Y == inheritInsertArgs([S |-> S, names |-> <<>>, macros |-> <<>>],
                             Redecl, InheritArgs, 1)
      Inherit == InheritTextOf(Y.names)
      S1 == IF Y.macros # <<>>
            THEN inheritMacroNotes(
                   toDiag(Y.S, "err_apc_insert_dvm_directive", Redecl.start, Inherit),
                   Y.macros, 1)
            ELSE Y.S
  IN insertDataDirective(S1, Redecl.loc, Decls, Redecl.start, Inherit)

RECURSIVE insertInheritLoop(_, _, _, _, _)
insertInheritLoop(S, Decls, redecls, InheritArgs, i) ==
  IF i > Len(redecls) THEN S
  ELSE insertInheritLoop(insertInheritRedecl(S, Decls, redecls[i], InheritArgs),
                         Decls, redecls, InheritArgs, i + 1)

\* The directive is inserted before the redeclaration with the body only.
insertInherit_body(S, FD, Decls, InheritArgs) ==
  IF InheritArgs = <<>> THEN S
  ELSE insertInheritLoop(S, Decls, SelectSeq(FD.redecls, LAMBDA R : R.hasBody),
                         InheritArgs, 1)

insertInherit(S, FD, Decls, InheritArgs) ==
  IF InheritArgs = <<>> THEN S
  ELSE insertInheritLoop(S, Decls, FD.redecls, InheritArgs, 1)

(***************************************************************************)
(* APCDVMHWriter::checkNotDistributedDecls                                 *)
(***************************************************************************)
\* A slip in the check: the start of the redeclaration is looked up as it
\* is, not in the representation recorded for its file.
checkNotDistributedRedecl_asis(S, Redecl) ==
  LET StartOfDecl == Redecl.start IN
  IF isMacroID(StartOfDecl) THEN S
  ELSE IF S.tf[getFilename(StartOfDecl)] = 0 THEN S
  ELSE IF S.dirs[StartOfDecl] # NoDir
       THEN toDiag(S, "err_apc_not_distr_decl_directive", StartOfDecl, NoDir)
       ELSE S

checkNotDistributedRedecl(S, Redecl) ==
  LET StartOfDecl == Redecl.start IN
  IF isMacroID(StartOfDecl) THEN S
  ELSE IF S.tf[getFilename(StartOfDecl)] = 0 THEN S
  ELSE LET Loc == [fid |-> S.tf[getFilename(StartOfDecl)], off |-> StartOfDecl.off] IN
       IF S.dirs[Loc] # NoDir
       THEN toDiag(S, "err_apc_not_distr_decl_directive", Loc, NoDir)
       ELSE S

RECURSIVE checkNotDistributedRedecls(_, _, _)
checkNotDistributedRedecls(S, redecls, i) ==
  IF i > Len(redecls) THEN S
  ELSE checkNotDistributedRedecls(checkNotDistributedRedecl(S, redecls[i]),
                                  redecls, i + 1)

\* vars: the variables of the unit in order; NotDistr: the names left in
\* NotDistrCanonicalDecls.
RECURSIVE checkNotDistributedDecls(_, _, _, _)
checkNotDistributedDecls(S, vars, NotDistr, i) ==
  IF i > Len(vars) THEN S
  ELSE checkNotDistributedDecls(
         IF vars[i].name \in NotDistr
         THEN checkNotDistributedRedecls(S, vars[i].redecls, 1) ELSE S,
         vars, NotDistr, i + 1)

(***************************************************************************)
(* APCDVMHWriter::insertDistibution                                        *)
(*                                                                         *)
(* Templates: FileID -> template -> "unused" (no entry), "used" (entry     *)
(* with HasDefinition = false) or "defined" (HasDefinition = true).        *)
(* Z is [S, Templates, InsertedTemplates].                                 *)
(***************************************************************************)
TplNames == {"T1", "T2"}

EmptyTemplates == [f \in FileIDs |-> [t \in TplNames |-> "unused"]]

\* Lexer::ComputePreamble(...).Size: no file of the unit has a preamble.
PreambleSize(fid) == 0

TemplateTextOf(Tpl, extern) == <<"template", Tpl, IF extern THEN "extern" ELSE "">>

\* The body of the loop over DataDirs.distrRules for one file.
insertDistributionRule(Z, File, Tpl) ==
  IF Z.Templates[File][Tpl] = "unused" THEN Z
  ELSE
    LET Where0 == [fid |-> File, off |-> PreambleSize(File)]
        S1 == IF IsIncludeFile(File)
              THEN toDiag(toDiag(Z.S, "err_apc_insert_dvm_directive", Where0,
                                 TemplateTextOf(Tpl, FALSE)),
                          "note_apc_insert_include_prevent", Where0, NoDir)
              ELSE Z.S
        extern == Z.Templates[File][Tpl] = "defined"
        Text   == TemplateTextOf(Tpl, extern)
        Where  == getLocationToTransform(S1, Where0)
        S2 == InsertTextBefore(S1, Where, Text)
        S3 == tf_try_emplace(S2, getFilename(Where), File)
    IN [S |-> S3,
        Templates |-> [Z.Templates EXCEPT ![File][Tpl] = "defined"],
        InsertedTemplates |-> Z.InsertedTemplates \cup {Tpl}]

RECURSIVE insertDistributionRules(_, _, _, _)
insertDistributionRules(Z, File, distrRules, i) ==
  IF i > Len(distrRules) THEN Z
  ELSE insertDistributionRules(insertDistributionRule(Z, File, distrRules[i]),
                               File, distrRules, i + 1)

\* files: the keys of Templates in the order the DenseMap iterates them.
RECURSIVE insertDistributionFiles(_, _, _, _)
insertDistributionFiles(Z, files, distrRules, i) ==
  IF i > Len(files) THEN Z
  ELSE insertDistributionFiles(
         insertDistributionRules(Z, files[i], distrRules, 1),
         files, distrRules, i + 1)

\* A report which does not look whether the template has been inserted.
RECURSIVE reportMissingTemplates_all(_, _, _, _)
reportMissingTemplates_all(S, distrRules, Inserted, i) ==
  IF i > Len(distrRules) THEN S
  ELSE reportMissingTemplates_all(
         toDiag(S, "err_apc_insert_template", InvalidLoc, <<"name", distrRules[i], "">>),
         distrRules, Inserted, i + 1)

RECURSIVE reportMissingTemplates(_, _, _, _)
reportMissingTemplates(S, distrRules, Inserted, i) ==
  IF i > Len(distrRules) THEN S
  ELSE reportMissingTemplates(
         IF distrRules[i] \notin Inserted
         THEN toDiag(S, "err_apc_insert_template", InvalidLoc,
                     <<"name", distrRules[i], "">>)
         ELSE S,
         distrRules, Inserted, i + 1)

insertDistibution(S, Tpls, distrRules, files) ==
  LET Z == insertDistributionFiles(
             [S |-> S, Templates |-> Tpls, InsertedTemplates |-> {}],
             files, distrRules, 1)
  IN [Z EXCEPT !.S =
         IF Len(distrRules) # Cardinality(Z.InsertedTemplates)
         THEN reportMissingTemplates(Z.S, distrRules, Z.InsertedTemplates, 1)
         ELSE Z.S]

\* Files with an entry in Templates.
UsedFiles(Tpls) == {f \in FileIDs : \E t \in TplNames : Tpls[f][t] # "unused"}

\* The orders in which a set of files may be iterated.
Orders(files) ==
  {s \in [1..Cardinality(files) -> files] :
     \A i, j \in 1..Cardinality(files) : i # j => s[i] # s[j]}

\* The lambda insertAlignAndCollectTpl of runOnModule. X is [S, Templates].
\* Templates.try_emplace(FID).first->second.try_emplace(AlignWith), done when
\* the location insertAlignment returns is valid. R is the result of insertAlignment.
collectTpl(R, Tpls, AR) ==
  IF isValid(R.DefinitionLoc)
  THEN [S |-> R.S,
        Templates |->
          [Tpls EXCEPT ![R.DefinitionLoc.fid][AR.alignWith] =
             IF @ = "unused" THEN "used" ELSE @]]
  ELSE [S |-> R.S, Templates |-> Tpls]

insertAlignAndCollectTpl(X, Decls, VD, AR) ==
  collectTpl(insertAlignment(X.S, Decls, AR, VD), X.Templates, AR)

(***************************************************************************)
(* The translation units the pass is run on.                               *)
(*   unit.vars        variables: [name, func, redecls]                     *)
(*   unit.funcs       functions: [name, redecls, declLocs, stmts]; stmts   *)
(*                    are the DeclStmt of the body, each the locations of  *)
(*                    the variables it declares                            *)
(*   unit.alignRules  align rules: [var, rule, alignWith, func, isParam,   *)
(*                    arg]; func is "" for a global variable               *)
(*   unit.distrRules  the templates of DataDirs.distrRules                 *)
(***************************************************************************)
\* Positions where the declarations of the units stand: anywhere in the main
\* file a.c, and at the start of the other files.
SiteLocs == {[fid |-> 1, off |-> o] : o \in Offsets} \cup
            {[fid |-> f, off |-> 0] : f \in 2..4}

VarRedecl(kind, site, d, macro, alias) ==
  [kind    |-> kind,
   loc     |-> DeclLocAt(site, d),
   start   |-> IF macro THEN MacroLoc ELSE site,
   aliases |-> IF alias
               THEN <<[loc   |-> DeclLocAt([site EXCEPT !.fid = OtherRepresentation(@)], d),
                       start |-> [site EXCEPT !.fid = OtherRepresentation(@)]]>>
               ELSE <<>>]

\* Redeclarations of the variable A. Only a redeclaration in the include file
\* is merged with the one of the other representation; one position of a.c may
\* lie in a macro expansion.
RedeclOk(R) ==
  /\ (R.aliases # <<>> => IsIncludeFile(R.loc.fid) /\ ~isMacroID(R.start))
  /\ (isMacroID(R.start) => R.loc.fid = 1 /\ R.loc.off = 0)

\* The first redeclaration of A stands in a.c or in the include file.
RedeclsA ==
  {R \in {VarRedecl(k, s, 1, m, a) : k \in Kinds, s \in {x \in SiteLocs : x.fid # 4},
                                     m \in BOOLEAN, a \in BOOLEAN} : RedeclOk(R)}

\* A second redeclaration of A, if any, stands at the last position of a.c or
\* is the merged redeclaration of the include file.
MoreRedeclsA ==
  {VarRedecl(k, [fid |-> 1, off |-> MaxOff], 1, FALSE, FALSE) : k \in Kinds} \cup
  {VarRedecl(k, [fid |-> 2, off |-> 0], 1, FALSE, TRUE) : k \in Kinds}

AllLocs(R) == {R.loc} \cup {R.aliases[i].loc : i \in 1..Len(R.aliases)}

\* The variable A is declared once or twice, at different locations, and
\* defined at most once.
RedeclListsA ==
  {<<r>> : r \in RedeclsA} \cup
  {<<q[1], q[2]>> : q \in {x \in RedeclsA \X MoreRedeclsA :
                             /\ AllLocs(x[1]) \cap AllLocs(x[2]) = {}
                             /\ ~(x[1].kind = "Definition" /\ x[2].kind = "Definition")}}

VarA(redecls) == [name |-> "A", func |-> "", redecls |-> redecls]

RuleA == [var |-> "A", rule |-> "[i]", alignWith |-> "T1", func |-> "",
          isParam |-> FALSE, arg |-> 0]

\* The second entity of a unit: a global variable B declared once ...
VarB(kind, site) ==
  [name |-> "B", func |-> "", redecls |-> <<VarRedecl(kind, site, 2, FALSE, FALSE)>>]

RuleB(tpl) == [var |-> "B", rule |-> "[i]", alignWith |-> tpl, func |-> "",
               isParam |-> FALSE, arg |-> 0]

\* ... or a function f(P) defined once, whose parameter P has an align rule;
\* the parameter may have no name and the function may start in a macro
\* expansion.
ParamLocOf(site) == [site EXCEPT !.off = MaxOff]

FuncF(site, pname, macro) ==
  [name |-> "f",
   redecls |-> <<[loc |-> DeclLocAt(site, 2),
                  start |-> IF macro THEN MacroLoc ELSE site, hasBody |-> TRUE,
                  params |-> <<[name |-> pname, loc |-> ParamLocOf(site)]>>]>>,
   declLocs |-> <<DeclLocAt(ParamLocOf(site), 3)>>,
   stmts |-> <<>>]

VarP(site) ==
  [name |-> "P", func |-> "f",
   redecls |-> <<[kind |-> "Definition", loc |-> DeclLocAt(ParamLocOf(site), 3),
                  start |-> ParamLocOf(site), aliases |-> <<>>]>>]

RuleP == [var |-> "P", rule |-> "[i]", alignWith |-> "T1", func |-> "f",
          isParam |-> TRUE, arg |-> 1]

\* ... or a function f(P, Q) with a local array V, declared by a prototype
\* and defined once. P and Q stand for the parameters of the function, V for
\* the only declaration statement of its body; the prototype may leave P
\* unnamed and may start in a macro expansion. Q is named in every
\* redeclaration.
ParamsOf(site, pname) ==
  <<[name |-> pname, loc |-> ParamLocOf(site)], [name |-> "Q", loc |-> ParamLocOf(site)]>>

FuncG(proto, pmacro, ppname, site, pname) ==
  [name |-> "f",
   redecls |-> <<[loc |-> DeclLocAt(proto, 2),
                  start |-> IF pmacro THEN MacroLoc ELSE proto, hasBody |-> FALSE,
                  params |-> ParamsOf(proto, ppname)],
                 [loc |-> DeclLocAt(site, 2), start |-> site, hasBody |-> TRUE,
                  params |-> ParamsOf(site, pname)]>>,
   declLocs |-> <<DeclLocAt(ParamLocOf(site), 3), DeclLocAt(ParamLocOf(site), 2),
                  DeclLocAt(ParamLocOf(site), 1)>>,
   stmts |-> <<<<DeclLocAt(ParamLocOf(site), 1)>>>>]

LocalVar(name, site, d) ==
  [name |-> name, func |-> "f",
   redecls |-> <<[kind |-> "Definition", loc |-> DeclLocAt(ParamLocOf(site), d),
                  start |-> ParamLocOf(site), aliases |-> <<>>]>>]

ParamRule(name, arg, tpl) ==
  [var |-> name, rule |-> "[i]", alignWith |-> tpl, func |-> "f",
   isParam |-> TRUE, arg |-> arg]

RuleV == [var |-> "V", rule |-> "[i]", alignWith |-> "T1", func |-> "f",
          isParam |-> FALSE, arg |-> 0]

\* The align rules of the variables of f, in the order of DataDirs.alignRules.
RulesOfG(tpl) ==
  {<<ParamRule("P", 1, tpl)>>,
   <<ParamRule("P", 1, tpl), ParamRule("Q", 2, tpl)>>,
   <<ParamRule("Q", 2, tpl), ParamRule("P", 1, tpl)>>,
   <<RuleV>>,
   <<ParamRule("P", 1, tpl), RuleV>>,
   <<RuleV, ParamRule("Q", 2, tpl), ParamRule("P", 1, tpl)>>}

\* The variables the rules are given for.
VarsOfG(site, rules) ==
  [i \in 1..Len(rules) |->
     LocalVar(rules[i].var, site,
              IF rules[i].var = "P" THEN 3 ELSE IF rules[i].var = "Q" THEN 2 ELSE 1)]

\* The prototype stands in the include file and the definition in a.c, or
\* the prototype in a.c and the definition in the include file.
SitesG == {<<[fid |-> 2, off |-> 0], [fid |-> 1, off |-> 0]>>,
           <<[fid |-> 1, off |-> 0], [fid |-> 3, off |-> 0]>>}

\* Positions of B and of f.
SitesB == {s \in SiteLocs : s.off = 0 /\ s.fid # 2}

FuncSites == {s \in SiteLocs : s.off = 0 /\ s.fid \in {1, 3}}

Units ==
  {[vars |-> <<VarA(ra)>>, funcs |-> <<>>, alignRules |-> <<RuleA>>,
    distrRules |-> <<"T1", "T2">>] : ra \in RedeclListsA}
  \cup
  {[vars |-> <<VarA(ra), VarB(k, s)>>, funcs |-> <<>>,
    alignRules |-> <<RuleA, RuleB(t)>>, distrRules |-> <<"T1", "T2">>] :
     ra \in RedeclListsA, k \in Kinds, s \in SitesB, t \in TplNames}
  \cup
  {[vars |-> <<VarA(ra), VarP(s)>>, funcs |-> <<FuncF(s, pn, m)>>,
    alignRules |-> <<RuleA, RuleP>>, distrRules |-> <<"T1", "T2">>] :
     ra \in RedeclListsA, s \in FuncSites, pn \in {"P", ""}, m \in BOOLEAN}
  \cup
  {[vars |-> VarsOfG(ps[2], rs), funcs |-> <<FuncG(ps[1], pm, ppn, ps[2], pn)>>,
    alignRules |-> rs, distrRules |-> <<"T1", "T2">>] :
     ps \in SitesG, pm \in BOOLEAN, ppn \in {"P", ""}, pn \in {"P", ""},
     rs \in RulesOfG("T1") \cup RulesOfG("T2")}

\* Unit.decls(): the top-level declarations of the unit.
RECURSIVE VarDeclsOf(_, _)
VarDeclsOf(vars, i) ==
  IF i > Len(vars) THEN <<>>
  ELSE (IF vars[i].func = ""
        THEN [j \in 1..Len(vars[i].redecls) |->
                [isFunc |-> FALSE, hasBody |-> FALSE, declLocs |-> <<>>,
                 redecl |-> vars[i].redecls[j]]]
        ELSE <<>>) \o VarDeclsOf(vars, i + 1)

RECURSIVE FuncDeclsOf(_, _)
FuncDeclsOf(funcs, i) ==
  IF i > Len(funcs) THEN <<>>
  ELSE [j \in 1..Len(funcs[i].redecls) |->
          [isFunc |-> TRUE, hasBody |-> funcs[i].redecls[j].hasBody,
           declLocs |-> funcs[i].declLocs, redecl |-> <<>>]]
       \o FuncDeclsOf(funcs, i + 1)

UnitDecls(u) == VarDeclsOf(u.vars, 1) \o FuncDeclsOf(u.funcs, 1)

\* The source-level variable (function) the matcher finds for a name.
VarNamed(u, name) == u.vars[CHOOSE i \in 1..Len(u.vars) : u.vars[i].name = name]

FuncNamed(u, name) == u.funcs[CHOOSE i \in 1..Len(u.funcs) : u.funcs[i].name = name]

(***************************************************************************)
(* DeclarationInfoExtractor::VisitDeclStmt over the body of a function.    *)
(***************************************************************************)
VisitDeclStmt(D, DS) ==
  [l \in DeclLocs |->
     IF \E i \in 1..Len(DS) : DS[i] = l
     THEN (IF Len(DS) = 1 THEN "single" ELSE "multi")
     ELSE D[l]]

RECURSIVE TraverseFunctionDecl(_, _, _)
TraverseFunctionDecl(D, stmts, i) ==
  IF i > Len(stmts) THEN D
  ELSE TraverseFunctionDecl(VisitDeclStmt(D, stmts[i]), stmts, i + 1)

(***************************************************************************)
(* State.                                                                  *)
(***************************************************************************)
VARIABLES
  mTransformedFiles,       \* APCDVMHWriter::mTransformedFiles
  mInsertedDirs,           \* APCDVMHWriter::mInsertedDirs
  rewriter,                \* the text the Rewriter holds, per location
  diags,                   \* diagnostics reported
  log,                     \* history: calls of insertDataDirective/insertDirective
  pc,                      \* position in runOnModule
  unit,                    \* the translation unit and the rules of the run
  Decls,                   \* runOnModule: DeclarationInfoMap Decls
  Templates,               \* runOnModule: TemplateInFileUsage Templates
  NotDistrCanonicalDecls,  \* runOnModule: names of the variables left in the set
  LocalVariables,          \* runOnModule: functions whose rules are not processed yet
  GlobalArrays,            \* runOnModule: global align rules not processed yet
  InsertedTemplates,       \* insertDistibution: templates declared in some file
  revision,                \* the revision of DVMHWriter.cpp that is built
  nest,                    \* the loops of a nest, outermost first, with their traits
  AccessInfo,              \* DIArrayAccessWrapper::getAccessInfo() is available
  level,                   \* number of loops of the nest already visited
  PI,                      \* the PragmaParallel item of the nest (ParallelItem *PI)
  DVMHRegion,              \* the PragmaRegion item of the nest
  DVMHActual,              \* the PragmaActual item of the nest
  DVMHGetActual,           \* the PragmaGetActual item of the nest
  mParallelizationInfo,    \* basic block -> ParallelLocations (Anchor, Entry, Exit)
  parDiags,                \* diagnostics of the classification
  parRewriter,             \* the text the Rewriter holds for the nest, per offset
  parItems,                \* the items of the loops classified before, by anchor
  parPc                    \* position of the classification of the nest

writerVars == <<mTransformedFiles, mInsertedDirs, rewriter, diags, log>>

passVars == <<pc, unit, Decls, Templates, NotDistrCanonicalDecls, LocalVariables,
              GlobalArrays, InsertedTemplates, revision>>

parVars == <<nest, AccessInfo, level, PI, DVMHRegion, DVMHActual, DVMHGetActual,
             mParallelizationInfo, parDiags, parRewriter, parItems, parPc>>

vars == <<mTransformedFiles, mInsertedDirs, rewriter, diags, log, pc, unit, Decls,
          Templates, NotDistrCanonicalDecls, LocalVariables, GlobalArrays,
          InsertedTemplates, revision, nest, AccessInfo, level, PI, DVMHRegion,
          DVMHActual, DVMHGetActual, mParallelizationInfo, parDiags, parRewriter,
          parItems, parPc>>

\* No parallel item (a null pointer).
NoItem == [kind |-> "none"]

\* The classification of loops does not run.
ParallelizationOff ==
  /\ nest = <<>>
  /\ AccessInfo = FALSE
  /\ level = 0
  /\ PI = NoItem
  /\ DVMHRegion = NoItem
  /\ DVMHActual = NoItem
  /\ DVMHGetActual = NoItem
  /\ mParallelizationInfo = <<>>
  /\ parDiags = <<>>
  /\ parRewriter = <<>>
  /\ parItems = <<>>
  /\ parPc = "off"

\* The writer state as a record, and its assignment.
Ledger == [tf |-> mTransformedFiles, dirs |-> mInsertedDirs, rw |-> rewriter,
           diags |-> diags, log |-> log]

SetLedger(S) ==
  /\ mTransformedFiles' = S.tf
  /\ mInsertedDirs' = S.dirs
  /\ rewriter' = S.rw
  /\ diags' = S.diags
  /\ log' = S.log

(***************************************************************************)
(* APCDVMHWriter::runOnModule, one action per step of the function.        *)
(***************************************************************************)
RuleIdxs(u) == 1..Len(u.alignRules)

\* releaseMemory(), the split of the align rules into global and local ones
\* and initializeDeclInfo.
runOnModuleBegin ==
  /\ pc = "start"
  /\ mTransformedFiles' = EmptyLedger.tf
  /\ mInsertedDirs' = EmptyLedger.dirs
  /\ GlobalArrays' = {i \in RuleIdxs(unit) : unit.alignRules[i].func = ""}
  /\ LocalVariables' = {unit.alignRules[i].func : i \in RuleIdxs(unit)} \ {""}
  /\ Decls' = initializeDeclInfo(UnitDecls(unit))
  /\ NotDistrCanonicalDecls' = {unit.vars[i].name : i \in 1..Len(unit.vars)}
  /\ Templates' = EmptyTemplates
  /\ pc' = "align"
  /\ UNCHANGED <<rewriter, diags, log, unit, InsertedTemplates, revision>>
  /\ UNCHANGED parVars

\* The loop over the rules of one function: W is [S, Templates, InheritArgs].
functionRule(W, D, u, F, AR) ==
  IF AR.func # F THEN W
  ELSE IF AR.isParam
  THEN [W EXCEPT !.InheritArgs = Append(@, [name |-> AR.var, arg |-> AR.arg])]
  ELSE [InheritArgs |-> W.InheritArgs] @@
       insertAlignAndCollectTpl([S |-> W.S, Templates |-> W.Templates],
                                D, VarNamed(u, AR.var), AR)

RECURSIVE functionRules(_, _, _, _, _)
functionRules(W, D, u, F, i) ==
  IF i > Len(u.alignRules) THEN W
  ELSE functionRules(functionRule(W, D, u, F, u.alignRules[i]), D, u, F, i + 1)

\* One iteration of `for (auto &Info : LocalVariables)`.
runOnModuleFunction(F) ==
  /\ pc = "align"
  /\ F \in LocalVariables
  /\ Decls' = TraverseFunctionDecl(Decls, FuncNamed(unit, F).stmts, 1)
  /\ \E W \in {functionRules([S |-> Ledger, Templates |-> Templates,
                               InheritArgs |-> <<>>], Decls', unit, F, 1)} :
       /\ Templates' = W.Templates
       /\ SetLedger(insertInherit(W.S, FuncNamed(unit, F), Decls', W.InheritArgs))
  /\ NotDistrCanonicalDecls' = NotDistrCanonicalDecls \
       {unit.alignRules[i].var : i \in {j \in RuleIdxs(unit) : unit.alignRules[j].func = F}}
  /\ LocalVariables' = LocalVariables \ {F}
  /\ UNCHANGED <<pc, unit, GlobalArrays, InsertedTemplates, revision>>
  /\ UNCHANGED parVars

\* One iteration of `for (auto *AR : GlobalArrays)`; the set is iterated in
\* the order of the addresses of the rules.
runOnModuleGlobal(i) ==
  /\ pc = "align"
  /\ LocalVariables = {}
  /\ i \in GlobalArrays
  /\ \E X \in {insertAlignAndCollectTpl([S |-> Ledger, Templates |-> Templates],
                                         Decls, VarNamed(unit, unit.alignRules[i].var),
                                         unit.alignRules[i])} :
       /\ SetLedger(X.S)
       /\ Templates' = X.Templates
  /\ NotDistrCanonicalDecls' = NotDistrCanonicalDecls \ {unit.alignRules[i].var}
  /\ GlobalArrays' = GlobalArrays \ {i}
  /\ UNCHANGED <<pc, unit, Decls, LocalVariables, InsertedTemplates, revision>>
  /\ UNCHANGED parVars

\* checkNotDistributedDecls(NotDistrCanonicalDecls)
runOnModuleCheck ==
  /\ pc = "align"
  /\ LocalVariables = {}
  /\ GlobalArrays = {}
  /\ SetLedger(checkNotDistributedDecls(Ledger, unit.vars, NotDistrCanonicalDecls, 1))
  /\ pc' = "distribute"
  /\ UNCHANGED <<unit, Decls, Templates, NotDistrCanonicalDecls, LocalVariables,
                 GlobalArrays, InsertedTemplates, revision>>
  /\ UNCHANGED parVars

\* insertDistibution(APCRegion, DataDirs, *TfmCtx, Templates); the files of
\* Templates are iterated in the order of the DenseMap.
runOnModuleDistribution ==
  /\ pc = "distribute"
  /\ \E files \in Orders(UsedFiles(Templates)) :
       LET Z == insertDistibution(Ledger, Templates, unit.distrRules, files) IN
         /\ SetLedger(Z.S)
         /\ Templates' = Z.Templates
         /\ InsertedTemplates' = Z.InsertedTemplates
  /\ pc' = "done"
  /\ UNCHANGED <<unit, Decls, NotDistrCanonicalDecls, LocalVariables, GlobalArrays,
                 revision>>
  /\ UNCHANGED parVars

Init ==
  /\ mTransformedFiles = EmptyLedger.tf
  /\ mInsertedDirs = EmptyLedger.dirs
  /\ rewriter = EmptyLedger.rw
  /\ diags = <<>>
  /\ log = <<>>
  /\ pc = "start"
  /\ unit \in Units
  /\ Decls = EmptyDecls
  /\ Templates = EmptyTemplates
  /\ NotDistrCanonicalDecls = {}
  /\ LocalVariables = {}
  /\ GlobalArrays = {}
  /\ InsertedTemplates = {}
  /\ revision = "lib/APC"
  /\ ParallelizationOff

Next ==
  \/ runOnModuleBegin
  \/ \E F \in LocalVariables : runOnModuleFunction(F)
  \/ \E i \in GlobalArrays : runOnModuleGlobal(i)
  \/ runOnModuleCheck
  \/ runOnModuleDistribution

\* One run of the writer pass over a unit.
Spec == Init /\ [][Next]_vars

(***************************************************************************)
(* initializeDeclInfo over the global declarations of a unit.              *)
(***************************************************************************)
\* A global variable declared once at a position; a declaration in the
\* include file may be merged with the one of the other representation.
GlobalVar(name, place, d) ==
  [name |-> name, func |-> "",
   redecls |-> <<VarRedecl("Definition", place.site, d, FALSE, place.alias)>>]

DeclPlaces ==
  {[site |-> s, alias |-> a] :
     s \in {x \in SiteLocs : x.fid # 4}, a \in BOOLEAN} \ 
  {[site |-> s, alias |-> TRUE] : s \in {x \in SiteLocs : ~IsIncludeFile(x.fid)}}

\* The orders in which the declarations of a unit may stand.
DeclOrders(seq) ==
  {[i \in 1..Len(seq) |-> seq[o[i]]] : o \in Orders(1..Len(seq))}

\* Units of three global variables X, Y, Z in any order, and units of two
\* global variables and the function f(P) with a body.
DeclUnits ==
  {[vars |-> vs, funcs |-> <<>>, alignRules |-> <<>>, distrRules |-> <<>>] :
     vs \in UNION {DeclOrders(<<GlobalVar("X", px, 1), GlobalVar("Y", py, 2),
                                  GlobalVar("Z", pz, 3)>>) :
                     px \in DeclPlaces, py \in DeclPlaces, pz \in DeclPlaces}}
  \cup
  {[vars |-> vs, funcs |-> <<FuncF(s, "P", FALSE)>>, alignRules |-> <<>>,
    distrRules |-> <<>>] :
     vs \in UNION {DeclOrders(<<GlobalVar("X", px, 1), GlobalVar("Y", py, 2)>>) :
                     px \in DeclPlaces, py \in DeclPlaces},
     s \in FuncSites}

InitDeclInfo ==
  /\ mTransformedFiles = EmptyLedger.tf
  /\ mInsertedDirs = EmptyLedger.dirs
  /\ rewriter = EmptyLedger.rw
  /\ diags = <<>>
  /\ log = <<>>
  /\ pc = "start"
  /\ unit \in DeclUnits
  /\ Decls = EmptyDecls
  /\ Templates = EmptyTemplates
  /\ NotDistrCanonicalDecls = {}
  /\ LocalVariables = {}
  /\ GlobalArrays = {}
  /\ InsertedTemplates = {}
  /\ revision = "lib/APC"
  /\ ParallelizationOff

\* The start of runOnModule up to initializeDeclInfo.
SpecDeclInfo == InitDeclInfo /\ [][runOnModuleBegin]_vars

(***************************************************************************)
(* Units with a variable which has no align rule. X is declared once; it   *)
(* may stand in the other representation of the include file at the        *)
(* offset of A (the file is included twice, at the level of the unit and   *)
(* in another scope, so that its declaration is a variable of its own in   *)
(* each representation), and it may start in a macro expansion.            *)
(***************************************************************************)
VarX(site, macro) ==
  [name |-> "X", func |-> "",
   redecls |-> <<VarRedecl("Definition", site, 2, macro, FALSE)>>]

\* X stands anywhere: in the declaration statement of A as well.
VarsX ==
  {x \in {VarX(s, m) : s \in {l \in SiteLocs : l.fid # 4}, m \in BOOLEAN} :
     RedeclOk(x.redecls[1])}

\* A and X, or A, X and the function f(P) whose parameter has an align
\* rule (X is not declared where f is), or the function f(P, Q) with the array V where only P has a rule.
NotDistrUnits ==
  {[vars |-> vs, funcs |-> <<>>, alignRules |-> <<RuleA>>,
    distrRules |-> <<"T1", "T2">>] :
     vs \in {<<VarA(ra), x>> : ra \in RedeclListsA, x \in VarsX}}
  \cup
  {u \in {[vars |-> vs \o <<VarP(s)>>, funcs |-> <<FuncF(s, pn, FALSE)>>,
            alignRules |-> <<RuleA, RuleP>>, distrRules |-> <<"T1", "T2">>] :
             vs \in {<<VarA(<<r>>), x>> :
                       r \in {q \in RedeclsA : q.kind = "Definition"}, x \in VarsX},
             s \in FuncSites, pn \in {"P", ""}} :
     u.vars[2].redecls[1].loc # u.funcs[1].redecls[1].loc}
  \cup
  {[vars |-> <<LocalVar("P", ps[2], 3), LocalVar("Q", ps[2], 2),
               LocalVar("V", ps[2], 1)>>,
    funcs |-> <<FuncG(ps[1], FALSE, ppn, ps[2], "P")>>,
    alignRules |-> <<ParamRule("P", 1, "T1")>>, distrRules |-> <<"T1", "T2">>] :
     ps \in SitesG, ppn \in {"P", ""}}

InitNotDistr ==
  /\ mTransformedFiles = EmptyLedger.tf
  /\ mInsertedDirs = EmptyLedger.dirs
  /\ rewriter = EmptyLedger.rw
  /\ diags = <<>>
  /\ log = <<>>
  /\ pc = "start"
  /\ unit \in NotDistrUnits
  /\ Decls = EmptyDecls
  /\ Templates = EmptyTemplates
  /\ NotDistrCanonicalDecls = {}
  /\ LocalVariables = {}
  /\ GlobalArrays = {}
  /\ InsertedTemplates = {}
  /\ revision = "lib/APC"
  /\ ParallelizationOff

\* One run of the writer pass over a unit with variables without a rule.
SpecNotDistr == InitNotDistr /\ [][Next]_vars

(***************************************************************************)
(* The ledger operations called directly, in any order and with any        *)
(* arguments their preconditions allow.                                    *)
(***************************************************************************)
\* Declaration traits of the direct calls: declarator 1 stands alone in its
\* statement, declarator 2 does not, declarator 3 has no entry.
LedgerDecls ==
  [l \in DeclLocs |-> IF l.d = 1 THEN "single" ELSE IF l.d = 2 THEN "multi" ELSE "none"]

\* Insertion points of the direct calls: the start of a.c and every position of
\* the include file, in both its representations.
LedgerLocs == {l \in FileLocs : l.fid \in {2, 3} \/ (l.fid = 1 /\ l.off = 0)}

LedgerDataLocs == {MacroLoc, [fid |-> 2, off |-> 0], [fid |-> 3, off |-> MaxOff]}

Revisions == {"lib/APC", "old"}

\* A call of insertDirective of the revision that is built.
CallInsertDirective ==
  /\ pc = "ledger"
  /\ Len(log) < MaxCalls
  /\ \E Where \in LedgerLocs, DirStr \in DirTexts :
       SetLedger(IF revision = "lib/APC"
                 THEN insertDirectiveLogged(Ledger, "insertDirective", InvalidDeclLoc,
                                            Where, DirStr)
                 ELSE insertDirectiveOldLogged(Ledger, "insertDirective",
                                               InvalidDeclLoc, Where, DirStr))
  /\ UNCHANGED passVars
  /\ UNCHANGED parVars

\* A call of insertDataDirective of the revision that is built.
CallInsertDataDirective ==
  /\ pc = "ledger"
  /\ Len(log) < MaxCalls
  /\ \E d \in 1..3, Where \in LedgerDataLocs, DirStr \in DirTexts :
       /\ revision = "old" => Decls[DeclLocAt([fid |-> 1, off |-> 0], d)] # "none"
       /\ SetLedger(IF revision = "lib/APC"
                    THEN insertDataDirective(Ledger, DeclLocAt([fid |-> 1, off |-> 0], d),
                                             Decls, Where, DirStr)
                    ELSE insertDataDirectiveOld(Ledger,
                                                DeclLocAt([fid |-> 1, off |-> 0], d),
                                                Decls, Where, DirStr))
  /\ UNCHANGED passVars
  /\ UNCHANGED parVars

InitLedger ==
  /\ mTransformedFiles = EmptyLedger.tf
  /\ mInsertedDirs = EmptyLedger.dirs
  /\ rewriter = EmptyLedger.rw
  /\ diags = <<>>
  /\ log = <<>>
  /\ pc = "ledger"
  /\ unit = [vars |-> <<>>, funcs |-> <<>>, alignRules |-> <<>>, distrRules |-> <<>>]
  /\ Decls = LedgerDecls
  /\ Templates = EmptyTemplates
  /\ NotDistrCanonicalDecls = {}
  /\ LocalVariables = {}
  /\ GlobalArrays = {}
  /\ InsertedTemplates = {}
  /\ revision \in Revisions
  /\ ParallelizationOff

NextLedger == CallInsertDirective \/ CallInsertDataDirective

\* Calls of the ledger operations of one revision, on one writer.
SpecLedger == InitLedger /\ [][NextLedger]_vars

(***************************************************************************)
(* Properties of the ledger operations.                                    *)
(***************************************************************************)
Range(seq) == {seq[i] : i \in 1..Len(seq)}

\* Number of occurrences of a text in a sequence of texts.
RECURSIVE TextCount(_, _, _)
TextCount(texts, T, i) ==
  IF i > Len(texts) THEN 0
  ELSE (IF texts[i] = T THEN 1 ELSE 0) + TextCount(texts, T, i + 1)

\* Number of times the text T is written at offset off of the file called
\* name, over the representations 1..fid of the files.
RECURSIVE WrittenUpTo(_, _, _, _)
WrittenUpTo(name, off, T, fid) ==
  IF fid = 0 THEN 0
  ELSE (IF FileTable[fid] = name THEN TextCount(rewriter[[fid |-> fid, off |-> off]], T, 1)
        ELSE 0) + WrittenUpTo(name, off, T, fid - 1)

\* Number of times T is written at the position the location Loc denotes.
WrittenAt(Loc, T) == WrittenUpTo(getFilename(Loc), Loc.off, T, 4)

\* The calls of the history that reached insertDirective.
DirCalls == {i \in 1..Len(log) : log[i].res \in {"inserted", "same", "conflict", "ledger"}}

\* Pairs of calls (i, j), i before j, that name the same position of the same
\* file, the first of which found the position free.
SamePlaceCalls ==
  {c \in DirCalls \X DirCalls :
     /\ c[1] < c[2]
     /\ log[c[1]].res = "inserted"
     /\ PhysOf(log[c[1]].where) = PhysOf(log[c[2]].where)}

\* Number of reports of a conflicting directive: the error followed by the
\* note note_apc_insert_multiple_directives.
ConflictReports ==
  Cardinality({k \in 1..Len(diags) - 1 :
     /\ diags[k].id = "err_apc_insert_dvm_directive"
     /\ diags[k + 1].id = "note_apc_insert_multiple_directives"})

\* C1: calling insertDirective(L, T) twice, whatever happens in between and
\* whatever representation of the file the second call names, performs one
\* insertion of T: the second call changes neither the text nor the ledger and
\* reports nothing.
C1_SameDirectiveInsertedOnce ==
  \A c \in SamePlaceCalls :
    log[c[1]].text = log[c[2]].text =>
      /\ log[c[2]].res = "same"
      /\ WrittenAt(log[c[1]].where, log[c[1]].text) = 1

\* C1 for the revision of lib/APC alone.
C1_SameDirectiveInsertedOnce_libAPC ==
  revision = "lib/APC" => C1_SameDirectiveInsertedOnce

\* C2 as the specification states it: after T1 and then a different T2 at the
\* same position, neither text is present and the conflict is reported.
C2_NeitherEditMaterialized ==
  \A c \in SamePlaceCalls :
    log[c[1]].text # log[c[2]].text =>
      /\ log[c[2]].res = "conflict"
      /\ WrittenAt(log[c[1]].where, log[c[1]].text) = 0
      /\ WrittenAt(log[c[1]].where, log[c[2]].text) = 0

\* C2, amended: after T1 and then a different T2 at the same position, T2 is
\* not written, T1 stays in the text, and every such call reports the error
\* err_apc_insert_dvm_directive with note_apc_insert_multiple_directives.
C2_SecondDirectiveRejected ==
  /\ \A c \in SamePlaceCalls :
       log[c[1]].text # log[c[2]].text =>
         /\ log[c[2]].res = "conflict"
         /\ WrittenAt(log[c[1]].where, log[c[1]].text) >= 1
         /\ WrittenAt(log[c[1]].where, log[c[2]].text) = 0
  /\ ConflictReports = Cardinality({j \in DirCalls : log[j].res = "conflict"})

\* A different text was offered for an occupied position, through the other
\* representation of the include file.
C2_ConflictReached ==
  \E c \in SamePlaceCalls :
    /\ log[c[1]].text # log[c[2]].text
    /\ log[c[1]].where # log[c[2]].where

(***************************************************************************)
(* Properties of a run of the pass.                                        *)
(***************************************************************************)
\* The texts of the given kinds written at a location.
TextsAt(l, kinds) ==
  {rewriter[l][i] : i \in {j \in 1..Len(rewriter[l]) : rewriter[l][j][1] \in kinds}}

DataKinds == {"align", "array", "inherit"}

\* C3 as the specification states it: every text the pass writes (align,
\* array, inherit, template declaration) goes through the ledger, so a
\* location holds at most one of them and it is the one the ledger records.
C3_OneTextPerLocation ==
  \A l \in FileLocs :
    /\ Cardinality(TextsAt(l, DataKinds \cup {"template"})) <= 1
    /\ TextsAt(l, DataKinds \cup {"template"}) \subseteq {mInsertedDirs[l]}

\* C3, amended: the data directives (align, array, inherit) go through the
\* ledger: a location holds at most one of them, written once, and it is the
\* one the ledger records; a position of a file is written through one
\* representation only. Template declarations are written past the ledger.
C3_OneDataDirectivePerLocation ==
  /\ \A l \in FileLocs :
       /\ TextsAt(l, DataKinds) \subseteq {mInsertedDirs[l]}
       /\ \A T \in TextsAt(l, DataKinds) : TextCount(rewriter[l], T, 1) = 1
       /\ mInsertedDirs[l] # NoDir => mInsertedDirs[l] \in TextsAt(l, DataKinds)
  /\ \A l1, l2 \in FileLocs :
       (l1 # l2 /\ PhysOf(l1) = PhysOf(l2)) =>
         (TextsAt(l1, DataKinds) = {} \/ TextsAt(l2, DataKinds) = {})

\* A location holds a data directive and a template declaration, and another
\* directive was refused at a location.
C3_TemplateJoinsDirective ==
  /\ \E l \in FileLocs : TextsAt(l, DataKinds) # {} /\ TextsAt(l, {"template"}) # {}
  /\ \E k \in 1..Len(log) : log[k].res = "conflict"

\* Number of times T is written in the file called name, at the offsets 0..off.
RECURSIVE WrittenInFile(_, _, _)
WrittenInFile(name, T, off) ==
  IF off < 0 THEN 0
  ELSE WrittenUpTo(name, off, T, 4) + WrittenInFile(name, T, off - 1)

\* The files with an entry for the template in Templates.
FilesUsing(t) == {FileTable[f] : f \in {g \in FileIDs : Templates[g][t] # "unused"}}

\* C4: after insertDistibution, a template used in some files is defined
\* (without extern) in exactly one of them, declared extern in the other
\* files that use it, and not declared in the files that do not use it.
C4_OneDefinitionPerTemplate ==
  pc = "done" =>
    \A t \in TplNames :
      /\ FilesUsing(t) # {} =>
           Cardinality({n \in FileNames :
             WrittenInFile(n, TemplateTextOf(t, FALSE), MaxOff) > 0}) = 1
      /\ \A n \in FilesUsing(t) :
           WrittenInFile(n, TemplateTextOf(t, FALSE), MaxOff)
             + WrittenInFile(n, TemplateTextOf(t, TRUE), MaxOff) = 1
      /\ \A n \in FileNames \ FilesUsing(t) :
           WrittenInFile(n, TemplateTextOf(t, FALSE), MaxOff)
             + WrittenInFile(n, TemplateTextOf(t, TRUE), MaxOff) = 0

\* C5: when the file that would receive the declaration of a template is an
\* include file, the error is reported with note_apc_insert_include_prevent,
\* nothing is written into that file for the template, and the template is
\* not counted as inserted because of that file.
C5_IncludeFileSkipped ==
  pc = "done" =>
    \A f \in FileIDs, t \in TplNames :
      (IsIncludeFile(f) /\ Templates[f][t] # "unused" /\ t \in Range(unit.distrRules)) =>
        /\ \E k \in 1..Len(diags) :
             /\ diags[k].id = "note_apc_insert_include_prevent"
             /\ diags[k].loc.fid = f
        /\ WrittenInFile(FileTable[f], TemplateTextOf(t, FALSE), MaxOff)
             + WrittenInFile(FileTable[f], TemplateTextOf(t, TRUE), MaxOff) = 0
        /\ t \in InsertedTemplates =>
             \E g \in FileIDs : ~IsIncludeFile(g) /\ Templates[g][t] # "unused"

\* The global align rules insertAlignAndCollectTpl has been called for.
ProcessedGlobalRules ==
  IF pc \in {"align", "distribute", "done"}
  THEN {i \in RuleIdxs(unit) : unit.alignRules[i].func = "" /\ i \notin GlobalArrays}
  ELSE {}

\* insertDataDirective was called for the declaration at DeclLoc with text T.
Requested(DeclLoc, T) ==
  \E k \in 1..Len(log) : log[k].declLoc = DeclLoc /\ log[k].text = T

\* A text was written for the declaration at DeclLoc.
InsertedFor(DeclLoc) ==
  \E k \in 1..Len(log) : log[k].declLoc = DeclLoc /\ log[k].res = "inserted"

\* insertAlignment found no definition of the variable of the rule.
NoDefinitionFound(VD) ==
  /\ getDefinition(VD) = 0
  /\ \A r \in 1..Len(VD.redecls) :
       VD.redecls[r].kind = "TentativeDefinition" => IsIncludedLoc(VD.redecls[r].start)

NoDefinitionReported(VD) ==
  \E k \in 1..Len(diags) :
    /\ diags[k].id = "note_apc_no_proper_definition"
    /\ diags[k].arg = <<"name", VD.name, "">>

RedeclLocsOf(VD) == UNION {AllLocs(VD.redecls[r]) : r \in 1..Len(VD.redecls)}

\* C6: for an align rule whose variable has no definition in any file the
\* error is reported with note_apc_no_proper_definition, and no directive,
\* neither align nor array, is written before a redeclaration of the variable
\* or before one of its location aliases.
C6_NoDirectiveWithoutDefinition ==
  \A i \in ProcessedGlobalRules :
    NoDefinitionFound(VarNamed(unit, unit.alignRules[i].var)) =>
      /\ NoDefinitionReported(VarNamed(unit, unit.alignRules[i].var))
      /\ \A l \in RedeclLocsOf(VarNamed(unit, unit.alignRules[i].var)) : ~InsertedFor(l)

\* The directives insertAlignment asks for, for the redeclaration r of VD.
RedeclarationDirectives(VD, Align, r) ==
  /\ (VD.redecls[r].kind = "Definition" /\ r = getDefinition(VD)) =>
       Requested(VD.redecls[r].loc, Align)
  /\ VD.redecls[r].kind = "DeclarationOnly" =>
       Requested(VD.redecls[r].loc, ArrayText) /\ ~Requested(VD.redecls[r].loc, Align)
  /\ VD.redecls[r].kind = "TentativeDefinition" =>
       IF getDefinition(VD) # 0
       THEN Requested(VD.redecls[r].loc, ArrayText) /\ ~Requested(VD.redecls[r].loc, Align)
       ELSE Requested(VD.redecls[r].loc, ArrayText) \/ Requested(VD.redecls[r].loc, Align)
  /\ \A a \in 1..Len(VD.redecls[r].aliases) :
       Requested(VD.redecls[r].aliases[a].loc, ArrayText)
         \/ Requested(VD.redecls[r].aliases[a].loc, Align)

\* C7: insertAlignment asks for `align` before the real definition, for
\* `array` before every declaration-only redeclaration, for `array` before a
\* tentative definition of a variable whose real definition has been found
\* (for `align` or `array` before it otherwise), and for a directive before
\* every location alias of a merged redeclaration.
C7_RedeclarationDirectives ==
  \A i \in ProcessedGlobalRules :
    \A r \in 1..Len(VarNamed(unit, unit.alignRules[i].var).redecls) :
      RedeclarationDirectives(VarNamed(unit, unit.alignRules[i].var),
                              AlignTextOf(unit.alignRules[i].rule,
                                          unit.alignRules[i].alignWith), r)

\* C8: a template is recorded as used in a file only if an `align` directive
\* with that template was written into that file; a refused insertion (macro
\* location, declaration statement with several declarators, conflicting
\* directive) does not make the template used.
C8_TemplateUsedAfterInsertion ==
  \A f \in FileIDs, t \in TplNames :
    Templates[f][t] # "unused" =>
      \E k \in 1..Len(log) :
        /\ log[k].text[1] = "align"
        /\ log[k].text[3] = t
        /\ log[k].res \in {"inserted", "same"}
        /\ getFilename(log[k].where) = FileTable[f]

(***************************************************************************)
(* ClangDVMHSMParallelization: the classification of the loops of a nest.  *)
(*                                                                         *)
(* A loop of the nest is a record of the traits the analyses supply:       *)
(*   id            the LoopID (the position of the loop in the nest)       *)
(*   FirstPrivate, LastPrivate, Private, ReadOccurred, WriteOccurred       *)
(*                 sorted lists of variables, as sets of names             *)
(*   Induction     the name of the induction variable, "" if there is none *)
(*   Reduction     reduction kind -> variables                             *)
(*   Dependence    regular dependences in the order of their names, each   *)
(*                 [name, Flow, Anti], Flow and Anti distance vectors of   *)
(*                 pairs [first, second]                                   *)
(*   ConstStep     the canonical step is a constant                        *)
(*   step          the value of the constant step                          *)
(*   accesses      array accesses in the scope of the loop, each           *)
(*                 [array, estimate, subs]; a subscript is [kind, dim,     *)
(*                 monoms], kind "null", "other" or "affine", and a monom  *)
(*                 is [Column, Value]                                      *)
(*   hostOnly      ParallelLoopInfo: the loop is host only                 *)
(*   Localized     the result of evaluateDefUse()                          *)
(*   perfect       the loop is in PerfectLoopInfo                          *)
(*   numRegions    DFLoop::getNumRegions()                                 *)
(*   exitIsHeader  the exiting block of the loop is its header             *)
(*   BeginLoc, EndLoc  the offsets of the first and of the last token of   *)
(*                 the loop statement the loop matcher finds               *)
(*   semi          the token which follows the last token is a semicolon   *)
(***************************************************************************)
Min(a, b) == IF a <= b THEN a ELSE b

Max(a, b) == IF a >= b THEN a ELSE b

\* trait::Reduction::Kind, from RK_First to RK_NumberOf.
ReductionKinds == <<"RK_Add", "RK_Mult", "RK_Or", "RK_And", "RK_Xor", "RK_Max", "RK_Min">>

NoReduction == [k \in Range(ReductionKinds) |-> {}]

\* An Optional without a value and with a value.
None == <<>>

Some(v) == <<v>>

\* The null ObjectID; the LoopID of a loop is not null.
NullID == 0

\* The clauses and attributes of an item without the finalized flag.
Content(Item) == [f \in DOMAIN Item \ {"final", "frozen"} |-> Item[f]]

\* ParallelItem::finalize(). `frozen` is NoItem as long as the flag is not
\* set, and then remembers what the item held when the flag was set.
finalize(Item) ==
  IF Item.final THEN Item
  ELSE [Item EXCEPT !.final = TRUE, !.frozen = Content(Item)]

\* A map without entries.
EmptyMap == [n \in {} |-> <<>>]

\* PragmaRegion(): the flag of a new item is false.
NewPragmaRegion ==
  [kind |-> "region", final |-> FALSE, frozen |-> NoItem, Private |-> {},
   ReadOccurred |-> {}, WriteOccurred |-> {}, HostOnly |-> FALSE]

\* PragmaParallel(Parent): mPossibleAcrossDepth = 0.
NewPragmaParallel(Parent) ==
  [kind |-> "parallel", final |-> FALSE, frozen |-> NoItem, Parent |-> Parent,
   Private |-> {}, Reduction |-> NoReduction, Dependence |-> EmptyMap,
   Induction |-> <<>>, DirectAccess |-> EmptyMap, PossibleAcrossDepth |-> 0]

\* PragmaActual() and PragmaGetActual(): the flag of a new item is true.
NewPragmaActual(kind) ==
  [kind |-> kind, final |-> TRUE, frozen |-> [kind |-> kind, Memory |-> {}],
   Memory |-> {}]

\* APSInt::operator>= of an unsigned left operand: the operands compared as
\* unsigned numbers of the same width.
uge(a, b) == IF b < 0 THEN a < 0 /\ a >= b ELSE a < 0 \/ a >= b

\* The loop of the lambda updatePAD over the distances after the first one.
RECURSIVE updatePADLoop(_, _, _, _)
updatePADLoop(Dist, i, PAD, MinDepth) ==
  IF i > Len(Dist) THEN PAD
  ELSE IF Dist[i].first < 0 /\ uge(0 - Dist[i].first, MinDepth) THEN PAD
  ELSE updatePADLoop(Dist, i + 1, PAD + 1, MinDepth)

\* The lambda updatePAD for one of Flow and Anti.
updatePAD(PossibleAcrossDepth, Dist) ==
  IF Dist # <<>>
  THEN Min(PossibleAcrossDepth, updatePADLoop(Dist, 2, 1, Dist[1].first))
  ELSE PossibleAcrossDepth

\* find_if over AccessInfo->scope_accesses(LoopID): the first access to an
\* estimate memory whose variable has the name of the dependence (0: none).
RECURSIVE findAccess(_, _, _)
findAccess(accesses, name, i) ==
  IF i > Len(accesses) THEN 0
  ELSE IF accesses[i].estimate /\ accesses[i].array = name THEN i
  ELSE findAccess(accesses, name, i + 1)

\* The loop over the monoms of an affine subscript. T is [ok, DependentDim,
\* NumberOfDims, AnotherColumn]; DependentDim is -1 as long as it has no
\* value.
RECURSIVE checkMonoms(_, _, _, _)
checkMonoms(T, Affine, LoopID, Idx) ==
  IF ~T.ok \/ Idx > Len(Affine.monoms) THEN T
  ELSE checkMonoms(
         IF Affine.monoms[Idx].Column = LoopID THEN
           IF T.AnotherColumn # NullID
              \/ (T.DependentDim # -1 /\ T.DependentDim # Affine.dim)
           THEN [T EXCEPT !.ok = FALSE]
           ELSE [T EXCEPT !.DependentDim = Affine.dim]
         ELSE
           IF T.DependentDim # -1 /\ T.DependentDim = Affine.dim
           THEN [T EXCEPT !.ok = FALSE]
           ELSE [T EXCEPT !.AnotherColumn = Affine.monoms[Idx].Column],
         Affine, LoopID, Idx + 1)

\* The loop over the subscripts of an access.
RECURSIVE checkSubscripts(_, _, _, _)
checkSubscripts(T, subs, LoopID, i) ==
  IF ~T.ok \/ i > Len(subs) THEN T
  ELSE checkSubscripts(
         IF subs[i].kind # "affine" THEN [T EXCEPT !.ok = FALSE]
         ELSE checkMonoms([T EXCEPT !.AnotherColumn = NullID], subs[i], LoopID, 1),
         subs, LoopID, i + 1)

\* The loop over AccessInfo->array_accesses(Array, LoopID).
RECURSIVE checkAccesses(_, _, _, _, _)
checkAccesses(T, accesses, array, LoopID, i) ==
  IF ~T.ok \/ i > Len(accesses) THEN T
  ELSE checkAccesses(
         IF accesses[i].array # array THEN T
         ELSE checkSubscripts(
                [T EXCEPT !.NumberOfDims = Max(@, Len(accesses[i].subs))],
                accesses[i].subs, LoopID, 1),
         accesses, array, LoopID, i + 1)

NonePair == [first |-> None, second |-> None]

\* The lambda getDistance.
getDistance(Dist) == IF Dist = <<>> THEN None ELSE Some(Dist[1].second)

\* A slip in the orientation of the pair: the step of the loop is ignored.
acrossEntry_unoriented(Across, Dep, T, step) ==
  [n \in DOMAIN Across \cup {Dep.name} |->
     IF n # Dep.name THEN Across[n]
     ELSE [d \in 1..T.NumberOfDims |->
             IF d = T.DependentDim + 1
             THEN [first |-> getDistance(Dep.Flow), second |-> getDistance(Dep.Anti)]
             ELSE IF n \in DOMAIN Across /\ d <= Len(Across[n]) THEN Across[n][d]
             ELSE NonePair]]

\* The entry of the across clause for a dependence: emplace, resize and the
\* assignment of the dependent dimension.
acrossEntry(Across, Dep, T, step) ==
  [n \in DOMAIN Across \cup {Dep.name} |->
     IF n # Dep.name THEN Across[n]
     ELSE [d \in 1..T.NumberOfDims |->
             IF d = T.DependentDim + 1 THEN
               IF step < 0
               THEN [first |-> getDistance(Dep.Anti), second |-> getDistance(Dep.Flow)]
               ELSE [first |-> getDistance(Dep.Flow), second |-> getDistance(Dep.Anti)]
             ELSE IF n \in DOMAIN Across /\ d <= Len(Across[n]) THEN Across[n][d]
             ELSE NonePair]]

\* The end of the body of the loop over the dependences, T being the result
\* of the check of the accesses. Q is [ok, P, PossibleAcrossDepth, diags].
processDependenceDims(Q, L, Dep, T) ==
  IF ~T.ok \/ T.DependentDim = -1 THEN [Q EXCEPT !.ok = FALSE]
  ELSE [Q EXCEPT !.PossibleAcrossDepth = updatePAD(updatePAD(@, Dep.Flow), Dep.Anti),
                 !.P.Dependence = acrossEntry(@, Dep, T, L.step)]

\* The body of the loop over the dependences.
processDependence(Q, L, Dep) ==
  IF findAccess(L.accesses, Dep.name, 1) = 0 THEN [Q EXCEPT !.ok = FALSE]
  ELSE processDependenceDims(Q, L, Dep,
         checkAccesses([ok |-> TRUE, DependentDim |-> -1, NumberOfDims |-> 0,
                        AnotherColumn |-> NullID],
                       L.accesses, Dep.name, L.id, 1))

RECURSIVE processDependences(_, _, _)
processDependences(Q, L, i) ==
  IF ~Q.ok \/ i > Len(L.Dependence) THEN Q
  ELSE processDependences(processDependence(Q, L, L.Dependence[i]), L, i + 1)

\* The end of processRegularDependenceis: the depth of the item.
setPossibleAcrossDepth(Q) ==
  IF ~Q.ok THEN Q
  ELSE [Q EXCEPT !.P.PossibleAcrossDepth =
          IF @ = 0 THEN Q.PossibleAcrossDepth + Len(Q.P.Induction)
          ELSE Min(@, Q.PossibleAcrossDepth + Len(Q.P.Induction))]

ParDiag(id) == [id |-> id]

\* ClangDVMHSMParallelization::processRegularDependenceis. The result is
\* [ok, P, PossibleAcrossDepth, diags]: the value returned, the item and the
\* diagnostics reported.
processRegularDependenceis(L, P, HasAccessInfo) ==
  IF L.Dependence = <<>>
  THEN [ok |-> TRUE, P |-> P, PossibleAcrossDepth |-> 0, diags |-> <<>>]
  ELSE IF ~L.ConstStep
  THEN [ok |-> FALSE, P |-> P, PossibleAcrossDepth |-> 0,
        diags |-> <<ParDiag("warn_parallel_loop"),
                    ParDiag("note_parallel_across_direction_unknown")>>]
  ELSE IF ~HasAccessInfo
  THEN [ok |-> FALSE, P |-> P, PossibleAcrossDepth |-> 0, diags |-> <<>>]
  ELSE setPossibleAcrossDepth(
         processDependences(
           [ok |-> TRUE, P |-> P,
            PossibleAcrossDepth |->
              IF L.Dependence[1].Flow = <<>> THEN Len(L.Dependence[1].Anti)
              ELSE Len(L.Dependence[1].Flow),
            diags |-> <<>>],
           L, 1))

\* A ParallelLocation of mParallelizationInfo: the block it is attached to,
\* its anchor and the kinds of the items of Entry and Exit (the items are
\* owned by the location; their clauses are kept in PI, DVMHRegion,
\* DVMHActual and DVMHGetActual).
ParallelLocation(Block, Anchor, Entry, Exit) ==
  [Block |-> Block, Anchor |-> Anchor, Entry |-> Entry, Exit |-> Exit]

Header(L) == <<"header", L.id>>

ExitingBlock(L) == IF L.exitIsHeader THEN Header(L) ELSE <<"exiting", L.id>>

\* An item of a list if the pointer is not null.
ItemKind(Item) == IF Item = NoItem THEN <<>> ELSE <<Item.kind>>

\* The markers and items pushed to Entry and Exit of the locations of a new
\* parallel loop.
EntryItems(E) == ItemKind(E.DVMHActual) \o ItemKind(E.DVMHRegion) \o <<"parallel">>

ExitItems(E) ==
  (IF E.DVMHRegion # NoItem THEN <<"marker">> ELSE <<>>) \o ItemKind(E.DVMHGetActual)

\* A slip in the registration: the marker which closes the region is not
\* pushed to Exit.
emplaceLocations_nomarker(E, L) ==
  [E EXCEPT !.mParallelizationInfo =
     IF L.exitIsHeader
     THEN @ \o <<ParallelLocation(Header(L), L.id, EntryItems(E),
                                  ItemKind(E.DVMHGetActual))>>
     ELSE @ \o <<ParallelLocation(Header(L), L.id, EntryItems(E), <<>>),
                 ParallelLocation(ExitingBlock(L), L.id, <<>>,
                                  ItemKind(E.DVMHGetActual))>>]

\* exploitParallelism: the locations of a new parallel loop are registered.
emplaceLocations(E, L) ==
  [E EXCEPT !.mParallelizationInfo =
     IF L.exitIsHeader
     THEN @ \o <<ParallelLocation(Header(L), L.id, EntryItems(E), ExitItems(E))>>
     ELSE @ \o <<ParallelLocation(Header(L), L.id, EntryItems(E), <<>>),
                 ParallelLocation(ExitingBlock(L), L.id, <<>>, ExitItems(E))>>]

\* exploitParallelism: the last statements, executed for a new and for an
\* extended item alike.
appendInduction(E, L) ==
  [E EXCEPT !.PI =
     IF ~@.final
        /\ (~L.perfect \/ L.numRegions = 0
            \/ (@.PossibleAcrossDepth # 0
                /\ Len(@.Induction) + 1 = @.PossibleAcrossDepth))
     THEN finalize([@ EXCEPT !.Induction = Append(@, L.id)])
     ELSE [@ EXCEPT !.Induction = Append(@, L.id)]]

\* exploitParallelism: the clauses of the region of a localized loop which
\* is not host only, and the actualization directives.
regionClauses(E, L) ==
  [E EXCEPT
     !.DVMHActual =
        IF L.ReadOccurred # {}
        THEN [NewPragmaActual("actual") EXCEPT !.Memory = L.ReadOccurred] ELSE @,
     !.DVMHGetActual =
        IF L.WriteOccurred # {}
        THEN [NewPragmaActual("get_actual") EXCEPT !.Memory = L.WriteOccurred]
        ELSE @,
     !.DVMHRegion = [@ EXCEPT !.ReadOccurred = @ \cup L.ReadOccurred,
                              !.WriteOccurred = @ \cup L.WriteOccurred,
                              !.Private = @ \cup L.Private]]

\* A slip in the branches: the clauses and the actualization directives are
\* made for a host only loop as well.
newItemClauses_staged(E, L) ==
  IF L.Localized THEN regionClauses(E, L)
  ELSE IF L.Dependence = <<>> THEN [E EXCEPT !.PI = finalize(@)]
  ELSE E

\* exploitParallelism: the branches which follow a successful check of the
\* dependences of a new item.
newItemClauses(E, L) ==
  IF ~L.hostOnly /\ L.Localized THEN regionClauses(E, L)
  ELSE IF L.Localized
  THEN [E EXCEPT !.DVMHRegion = [@ EXCEPT !.HostOnly = TRUE],
                 !.PI = IF L.Dependence = <<>> THEN finalize(@) ELSE @]
  ELSE IF L.Dependence = <<>> THEN [E EXCEPT !.PI = finalize(@)]
  ELSE E

\* exploitParallelism with PI == nullptr, Q being the result of
\* processRegularDependenceis for the new item.
newItemChecked(E, L, Q) ==
  IF ~Q.ok THEN [E EXCEPT !.diags = @ \o Q.diags]
  ELSE appendInduction(
         emplaceLocations(
           newItemClauses(
             [E EXCEPT !.diags = @ \o Q.diags,
                       !.PI = Q.P,
                       !.DVMHRegion = IF L.Localized THEN finalize(NewPragmaRegion)
                                      ELSE NoItem],
             L),
           L),
         L)

newItem(E, L, HasAccessInfo) ==
  newItemChecked(E, L,
    processRegularDependenceis(
      L,
      [NewPragmaParallel(L.Localized) EXCEPT !.Private = L.Private,
                                             !.Reduction = L.Reduction],
      HasAccessInfo))

\* exploitParallelism with an item, Q being the result of
\* processRegularDependenceis for the item.
extendItemChecked(E, L, Q) ==
  IF ~Q.ok THEN [E EXCEPT !.PI = finalize(Q.P), !.diags = @ \o Q.diags]
  ELSE appendInduction([E EXCEPT !.PI = Q.P, !.diags = @ \o Q.diags], L)

\* A slip in the extension of an item: every loop is taken for a mismatch.
extendItem_mismatch(E, L, HasAccessInfo) == [E EXCEPT !.PI = finalize(@)]

\* A slip in the extension of an item: the private variables of the loop
\* are not compared with the ones of the item.
extendItem_anyPrivate(E, L, HasAccessInfo) ==
  IF L.hostOnly \/ L.Reduction # E.PI.Reduction
  THEN [E EXCEPT !.PI = finalize([@ EXCEPT !.Private = (@ \ {L.Induction})
                                                        \cup {L.Induction}])]
  ELSE extendItemChecked(E, L,
         processRegularDependenceis(
           L, [E.PI EXCEPT !.Private = @ \ {L.Induction}], HasAccessInfo))

extendItem(E, L, HasAccessInfo) ==
  IF L.hostOnly
     \/ L.Private # E.PI.Private \ {L.Induction}
     \/ L.Reduction # E.PI.Reduction
  THEN [E EXCEPT !.PI = finalize([@ EXCEPT !.Private = (@ \ {L.Induction})
                                                        \cup {L.Induction}])]
  ELSE extendItemChecked(E, L,
         processRegularDependenceis(
           L, [E.PI EXCEPT !.Private = @ \ {L.Induction}], HasAccessInfo))

\* A classification which does not look at the first private and last
\* private variables and at the induction of the loop.
exploitParallelism_eager(E, L, HasAccessInfo) ==
  IF E.PI # NoItem THEN extendItem(E, L, HasAccessInfo)
  ELSE newItem(E, L, HasAccessInfo)

\* ClangDVMHSMParallelization::exploitParallelism for the loop L. E holds
\* PI and what the pass owns: the items, mParallelizationInfo and the
\* diagnostics. The assertions are not modelled: they are compiled out of
\* a release build.
exploitParallelism(E, L, HasAccessInfo) ==
  IF L.FirstPrivate # {} \/ L.LastPrivate # {} \/ L.Induction = ""
  THEN IF E.PI # NoItem THEN [E EXCEPT !.PI = finalize(@)] ELSE E
  ELSE IF E.PI # NoItem THEN extendItem(E, L, HasAccessInfo)
  ELSE newItem(E, L, HasAccessInfo)

\* optimizeLevelImpl: the loop over the monoms of an affine subscript. V is
\* the mapping of the dimensions of the array.
RECURSIVE mapMonoms(_, _, _, _)
mapMonoms(V, Affine, Induction, I) ==
  IF I > Len(Affine.monoms) THEN V
  ELSE mapMonoms(
         IF Affine.monoms[I].Value # 0 /\ Affine.monoms[I].Column \in Range(Induction)
         THEN [V EXCEPT ![Affine.dim + 1] =
                 [first |-> Affine.monoms[I].Column,
                  second |-> ~(Affine.monoms[I].Value < 0)]]
         ELSE V,
         Affine, Induction, I + 1)

\* The loop over the subscripts of an access which looks at a dimension
\* again after it was bound.
RECURSIVE mapSubscripts_rebind(_, _, _, _)
mapSubscripts_rebind(V, subs, Induction, i) ==
  IF i > Len(subs) THEN V
  ELSE mapSubscripts_rebind(
         IF subs[i].kind = "null" THEN V
         ELSE IF subs[i].kind = "affine" THEN mapMonoms(V, subs[i], Induction, 1)
         ELSE V,
         subs, Induction, i + 1)

\* optimizeLevelImpl: the loop over the subscripts of an access.
RECURSIVE mapSubscripts(_, _, _, _)
mapSubscripts(V, subs, Induction, i) ==
  IF i > Len(subs) THEN V
  ELSE mapSubscripts(
         IF subs[i].kind = "null" THEN V
         ELSE IF V[subs[i].dim + 1].first # NullID THEN V
         ELSE IF subs[i].kind = "affine" THEN mapMonoms(V, subs[i], Induction, 1)
         ELSE V,
         subs, Induction, i + 1)

\* DirectAccess.try_emplace(Array, Access.size(), {nullptr, true}).
mapping_try_emplace(Mapping, array, size) ==
  IF array \in DOMAIN Mapping THEN Mapping
  ELSE [a \in DOMAIN Mapping \cup {array} |->
          IF a = array THEN [d \in 1..size |-> [first |-> NullID, second |-> TRUE]]
          ELSE Mapping[a]]

\* optimizeLevelImpl: the body of the loop over the accesses, M being the
\* mapping after try_emplace.
mapAccess(M, Access, Induction) ==
  [M EXCEPT ![Access.array] = mapSubscripts(@, Access.subs, Induction, 1)]

\* optimizeLevelImpl: the loop over AccessInfo.scope_accesses(ID).
RECURSIVE mapAccesses(_, _, _)
mapAccesses(P, accesses, i) ==
  IF i > Len(accesses) THEN P
  ELSE mapAccesses(
         IF ~accesses[i].estimate THEN P
         ELSE [P EXCEPT !.DirectAccess =
                 mapAccess(mapping_try_emplace(@, accesses[i].array,
                                               Len(accesses[i].subs)),
                           accesses[i], P.Induction)],
         accesses, i + 1)

\* optimizeLevelImpl: the parallel loop L is registered with a parallel
\* directive in Entry of a location of its header.
HasParallelLocation(Info, L) ==
  \E i \in DOMAIN Info :
    /\ Info[i].Block = Header(L)
    /\ Info[i].Anchor = L.id
    /\ "parallel" \in Range(Info[i].Entry)

\* optimizeLevelImpl for a level of one loop and optimizeLevel, which does
\* nothing without the information about the accesses.
optimizeLevel(E, L, HasAccessInfo) ==
  IF ~HasAccessInfo THEN E
  ELSE IF ~HasParallelLocation(E.mParallelizationInfo, L) THEN E
  ELSE [E EXCEPT !.PI = mapAccesses(@, L.accesses, 1)]

(***************************************************************************)
(* ClangDVMHSMParallelization::runOnModule: the texts of the directives.   *)
(* A text is the sequence of its tokens.                                   *)
(***************************************************************************)

\* The names of the variables in the order of a SortedVarListT (std::set of
\* strings).
SortedNames == <<"A", "B", "i", "j", "k", "l", "m", "r", "s", "t", "u", "x">>

\* The elements of a sorted list, from begin() to end().
SortedList(set) == SelectSeq(SortedNames, LAMBDA n : n \in set)

RECURSIVE addVarNames(_, _)
addVarNames(Clause, names) ==
  IF names = <<>> THEN Clause
  ELSE addVarNames(Clause \o <<",", Head(names)>>, Tail(names))

\* addVarList for a list which is not empty.
addVarList(list, Clause) ==
  addVarNames(Clause \o <<"(", Head(list)>>, Tail(list)) \o <<")">>

\* addClauseIfNeed
addClauseIfNeed(Name, Vars, PragmaStr) ==
  IF Vars # {} THEN addVarList(SortedList(Vars), PragmaStr \o <<Name>>)
  ELSE PragmaStr

\* addReductionIfNeed: the switch over the kind. RedKind stays empty for
\* RK_Xor, whose statement is `RedKind + "xor "`.
RedKind(Kind) ==
  CASE Kind = "RK_Add" -> "sum"
    [] Kind = "RK_Mult" -> "product"
    [] Kind = "RK_Or" -> "or"
    [] Kind = "RK_And" -> "and"
    [] Kind = "RK_Xor" -> ""
    [] Kind = "RK_Max" -> "max"
    [] Kind = "RK_Min" -> "min"

\* addReductionIfNeed: the loop over the variables of a kind after the first.
RECURSIVE addReductionVars(_, _, _)
addReductionVars(ParallelFor, Kind, names) ==
  IF names = <<>> THEN ParallelFor
  ELSE addReductionVars(
         ParallelFor \o <<",", RedKind(Kind), "(", Head(names), ")">>,
         Kind, Tail(names))

\* addReductionIfNeed: the clause of a kind whose list is not empty.
addReductionKind(ParallelFor, Kind, names) ==
  addReductionVars(
    ParallelFor \o <<"reduction", "(", RedKind(Kind), "(", Head(names), ")">>,
    Kind, Tail(names)) \o <<")">>

\* addReductionIfNeed
RECURSIVE addReductionIfNeed(_, _, _)
addReductionIfNeed(VarInfoList, ParallelFor, I) ==
  IF I > Len(ReductionKinds) THEN ParallelFor
  ELSE addReductionIfNeed(
         VarInfoList,
         IF VarInfoList[ReductionKinds[I]] = {} THEN ParallelFor
         ELSE addReductionKind(ParallelFor, ReductionKinds[I],
                               SortedList(VarInfoList[ReductionKinds[I]])),
         I + 1)

\* getBaseInductionsForNest: the names of the induction variables of the
\* loop L and of the loops nested in it, one for each dimension of the item.
getBaseInductionsForNest(Nest, L, Parallel) ==
  [I \in 1..Len(Parallel.Induction) |->
     [first |-> Nest[L.id + I - 1].id, second |-> Nest[L.id + I - 1].Induction]]

\* addParallelMapping: the loop over Inductions.
RECURSIVE addInductions(_, _, _)
addInductions(PragmaStr, Inductions, i) ==
  IF i > Len(Inductions) THEN PragmaStr
  ELSE addInductions(PragmaStr \o <<"[", Inductions[i].second, "]">>,
                     Inductions, i + 1)

\* find_if(Inductions, LToI.first == Map.first)->second
InductionName(Inductions, ID) ==
  Inductions[CHOOSE i \in DOMAIN Inductions : Inductions[i].first = ID].second

\* addParallelMapping: the loop over the dimensions of a mapping.
RECURSIVE addTieDims(_, _, _, _)
addTieDims(Tie, Map, Inductions, d) ==
  IF d > Len(Map) THEN Tie
  ELSE addTieDims(
         Tie \o <<"[">>
             \o (IF Map[d].first # NullID
                 THEN (IF ~Map[d].second THEN <<"-">> ELSE <<>>)
                        \o <<InductionName(Inductions, Map[d].first)>>
                 ELSE <<>>)
             \o <<"]">>,
         Map, Inductions, d + 1)

\* addParallelMapping: MappingStr, the ties in the order of their texts.
RECURSIVE addTies(_, _, _, _)
addTies(PragmaStr, Mapping, Inductions, arrays) ==
  IF arrays = <<>> THEN PragmaStr
  ELSE addTies(
         addTieDims(PragmaStr \o <<Head(arrays)>>, Mapping[Head(arrays)],
                    Inductions, 1)
           \o (IF Tail(arrays) = <<>> THEN <<>> ELSE <<",">>),
         Mapping, Inductions, Tail(arrays))

\* addParallelMapping with Inductions computed.
addParallelMapping(Inductions, Parallel, PragmaStr) ==
  addTies(
    addInductions(PragmaStr \o <<"(">>, Inductions, 1) \o <<")", " tie", "(">>,
    Parallel.DirectAccess, Inductions,
    SortedList(DOMAIN Parallel.DirectAccess)) \o <<")">>

\* Range.first->toString(PragmaStr), or "0" for a distance without a value.
DistanceText(Dist) == IF Dist = None THEN "0" ELSE ToString(Dist[1])

\* runOnModule: the loop over the ranges of an across entry.
RECURSIVE addAcrossRanges(_, _, _)
addAcrossRanges(PragmaStr, Ranges, d) ==
  IF d > Len(Ranges) THEN PragmaStr
  ELSE addAcrossRanges(
         PragmaStr \o <<"[", DistanceText(Ranges[d].first), ":",
                        DistanceText(Ranges[d].second), "]">>,
         Ranges, d + 1)

\* runOnModule: the loop over the entries of the across clause.
RECURSIVE addAcross(_, _, _)
addAcross(PragmaStr, Across, arrays) ==
  IF arrays = <<>> THEN PragmaStr
  ELSE addAcross(addAcrossRanges(PragmaStr \o <<Head(arrays)>>,
                                 Across[Head(arrays)], 1),
                 Across, Tail(arrays))

addAcrossIfNeed(PragmaStr, Across) ==
  IF DOMAIN Across = {} THEN PragmaStr
  ELSE addAcross(PragmaStr \o <<"across(">>, Across, SortedList(DOMAIN Across))
         \o <<")">>

\* runOnModule: the text of a parallel directive.
ParallelText(Nest, L, Parallel) ==
  addReductionIfNeed(
    Parallel.Reduction,
    addClauseIfNeed(
      " private", Parallel.Private,
      addAcrossIfNeed(
        IF DOMAIN Parallel.DirectAccess = {}
        THEN <<"#pragma dvm parallel", "(", ToString(Len(Parallel.Induction)), ")">>
        ELSE addParallelMapping(getBaseInductionsForNest(Nest, L, Parallel),
                                Parallel, <<"#pragma dvm parallel">>),
        Parallel.Dependence)),
    1) \o <<"\n">>

\* runOnModule: the text of a region directive.
RegionText(Region) ==
  addClauseIfNeed(
    " local", Region.Private,
    addClauseIfNeed(
      " out", Region.WriteOccurred,
      addClauseIfNeed(" in", Region.ReadOccurred, <<"#pragma dvm region">>)))
    \o (IF Region.HostOnly THEN <<" targets(HOST)">> ELSE <<>>)
    \o <<"\n{", "\n">>

\* runOnModule: the text of an actual or get_actual directive whose memory
\* is not empty.
ActualText(Actual) ==
  addVarList(SortedList(Actual.Memory),
             <<IF Actual.kind = "actual" THEN "#pragma dvm actual"
               ELSE "#pragma dvm get_actual">>) \o <<"\n">>

\* A slip in the Rewriter: the text goes before the text already inserted.
InsertTextAfter_before(W, off, Str) == [W EXCEPT ![off] = <<Str>> \o @]

\* Rewriter::InsertTextAfter: the text goes after the text already inserted
\* at the offset.
InsertTextAfter(W, off, Str) == [W EXCEPT ![off] = @ \o <<Str>>]

\* Rewriter::InsertTextAfterToken: the offset is the end of the token at
\* Loc; the tokens which end a loop are one character long.
InsertTextAfterToken(W, Loc, Str) == InsertTextAfter(W, Loc + 1, Str)

\* runOnModule: the body of the loop over PL.Entry for one item.
EntryText(E, Nest, L, kind) ==
  CASE kind = "parallel" -> ParallelText(Nest, L, E.PI)
    [] kind = "region" -> RegionText(E.DVMHRegion)
    [] kind = "actual" -> ActualText(E.DVMHActual)

\* runOnModule: the loop over PL.Entry.
RECURSIVE insertEntry(_, _, _, _, _, _)
insertEntry(W, E, Nest, L, Entry, i) ==
  IF i > Len(Entry) THEN W
  ELSE insertEntry(
         IF Entry[i] = "actual" /\ E.DVMHActual.Memory = {} THEN W
         ELSE InsertTextAfter(W, L.BeginLoc, EntryText(E, Nest, L, Entry[i])),
         E, Nest, L, Entry, i + 1)

\* runOnModule: the place of the texts of PL.Exit.
InsertLoc(L) == IF L.semi THEN L.EndLoc + 1 ELSE L.EndLoc

\* runOnModule: the loop over PL.Exit.
RECURSIVE insertExit(_, _, _, _, _)
insertExit(W, E, L, Exit, i) ==
  IF i > Len(Exit) THEN W
  ELSE insertExit(
         IF Exit[i] = "get_actual"
         THEN IF E.DVMHGetActual.Memory = {} THEN W
              ELSE InsertTextAfterToken(W, InsertLoc(L), ActualText(E.DVMHGetActual))
         ELSE InsertTextAfterToken(W, InsertLoc(L), <<"}", "\n">>),
         E, L, Exit, i + 1)

\* runOnModule: the loop over the blocks of the function and over the
\* locations of a block.
RECURSIVE insertLocations(_, _, _, _)
insertLocations(W, E, Nest, i) ==
  IF i > Len(E.mParallelizationInfo) THEN W
  ELSE insertLocations(
         insertExit(
           insertEntry(W, E, Nest, Nest[E.mParallelizationInfo[i].Anchor],
                       E.mParallelizationInfo[i].Entry, 1),
           E, Nest[E.mParallelizationInfo[i].Anchor],
           E.mParallelizationInfo[i].Exit, 1),
         E, Nest, i + 1)

(***************************************************************************)
(* The nests classified. A nest is a sequence of loops, the outermost      *)
(* first. Each loop is a loop every check accepts (BaseLoop) with some of  *)
(* its traits replaced: up to two traits of the outermost loop and up to   *)
(* one trait of each inner loop.                                           *)
(***************************************************************************)
MaxDepth == 2

InductionNames == <<"i", "j", "k", "l">>

\* The induction variables of the loops enclosed in the loop id.
InnerInductions(id, depth) == {InductionNames[k] : k \in (id + 1)..depth}

Monom(Column, Value) == [Column |-> Column, Value |-> Value]

Affine(dim, monoms) == [kind |-> "affine", dim |-> dim, monoms |-> monoms]

Access(array, estimate, subs) == [array |-> array, estimate |-> estimate, subs |-> subs]

Distance(d) == [first |-> d, second |-> d]

Dep(name, Flow, Anti) == [name |-> name, Flow |-> Flow, Anti |-> Anti]

BaseLoop(id, depth) ==
  [id |-> id, FirstPrivate |-> {}, LastPrivate |-> {},
   Induction |-> InductionNames[id],
   Private |-> InnerInductions(id, depth) \cup {"t"},
   Reduction |-> NoReduction, Dependence |-> <<>>,
   ReadOccurred |-> {"A"}, WriteOccurred |-> {"A"},
   ConstStep |-> TRUE, step |-> 1,
   accesses |-> <<Access("A", TRUE, <<Affine(0, <<Monom(id, 1)>>)>>)>>,
   hostOnly |-> FALSE, Localized |-> TRUE, perfect |-> TRUE, numRegions |-> 1,
   exitIsHeader |-> TRUE, BeginLoc |-> id, EndLoc |-> depth + 1, semi |-> TRUE]

\* Distance vectors of a dependence: Flow and Anti.
DistancePairs ==
  { <<<<>>, <<>>>>,
    <<<<Distance(1)>>, <<>>>>,
    <<<<>>, <<Distance(1)>>>>,
    <<<<Distance(1), Distance(1)>>, <<Distance(2)>>>>,
    <<<<Distance(1), Distance(-1)>>, <<>>>>,
    <<<<Distance(2), Distance(-1)>>, <<Distance(2), Distance(1)>>>> }

DependenceLists ==
  {<<Dep("A", d[1], d[2])>> : d \in DistancePairs}
    \cup {<<Dep("B", <<Distance(1)>>, <<>>)>>,
          <<Dep("A", <<Distance(1), Distance(1)>>, <<>>),
            Dep("B", <<Distance(1)>>, <<>>)>>}

\* Accesses in the scope of the loop id; id + 1 is the loop it encloses.
AccessLists(id) ==
  { <<>>,
    <<Access("A", FALSE, <<Affine(0, <<Monom(id, 1)>>)>>)>>,
    <<Access("A", TRUE, <<[kind |-> "other", dim |-> 0, monoms |-> <<>>]>>)>>,
    <<Access("A", TRUE, <<[kind |-> "null", dim |-> 0, monoms |-> <<>>]>>)>>,
    <<Access("A", TRUE, <<Affine(0, <<Monom(id, -1)>>),
                          Affine(1, <<Monom(id + 1, -1), Monom(id + 2, 0)>>)>>)>>,
    <<Access("A", TRUE, <<Affine(0, <<Monom(id, 1), Monom(id + 1, 1)>>)>>)>>,
    <<Access("A", TRUE, <<Affine(0, <<Monom(id + 1, 1)>>)>>)>>,
    <<Access("A", TRUE, <<Affine(0, <<Monom(id, 1)>>), Affine(1, <<Monom(id + 1, 1)>>)>>),
      Access("A", TRUE, <<Affine(0, <<Monom(id + 1, 1)>>), Affine(1, <<Monom(id, 1)>>)>>)>>,
    <<Access("A", TRUE, <<Affine(0, <<Monom(id, 1)>>)>>),
      Access("B", TRUE, <<Affine(0, <<Monom(id, 1)>>)>>)>> }

\* A[i][j] in a nest of two loops: the accesses in the scope of each loop,
\* and a dependence whose distances stay positive in both levels.
TwoDimAccesses ==
  <<Access("A", TRUE, <<Affine(0, <<Monom(1, 1)>>), Affine(1, <<Monom(2, 1)>>)>>)>>

TwoDimDependence ==
  <<Dep("A", <<Distance(1), Distance(1)>>, <<Distance(2), Distance(1)>>)>>

\* The loop L and the loops which differ from it in one trait.
Vary(L) ==
  {L}
    \cup {[L EXCEPT !.FirstPrivate = {"x"}], [L EXCEPT !.LastPrivate = {"x"}],
          [L EXCEPT !.Induction = ""], [L EXCEPT !.Private = {}],
          [L EXCEPT !.Private = @ \cup {"u"}],
          [L EXCEPT !.Reduction = [@ EXCEPT !["RK_Add"] = {"s"}]],
          [L EXCEPT !.ReadOccurred = {}], [L EXCEPT !.WriteOccurred = {}],
          [L EXCEPT !.ConstStep = FALSE], [L EXCEPT !.step = -1],
          [L EXCEPT !.hostOnly = TRUE], [L EXCEPT !.Localized = FALSE],
          [L EXCEPT !.perfect = FALSE], [L EXCEPT !.numRegions = 0],
          [L EXCEPT !.exitIsHeader = FALSE], [L EXCEPT !.semi = FALSE],
          [L EXCEPT !.Reduction = [@ EXCEPT !["RK_Xor"] = {"x"}]],
          [L EXCEPT !.Reduction = [@ EXCEPT !["RK_Add"] = {"r", "s"},
                                            !["RK_Max"] = {"m"}]]}
    \cup {[L EXCEPT !.Dependence = d] : d \in DependenceLists}
    \cup {[L EXCEPT !.accesses = a] : a \in AccessLists(L.id)}
    \cup {[L EXCEPT !.Dependence = TwoDimDependence, !.accesses = TwoDimAccesses]}

OuterLoops(depth) == UNION {Vary(L) : L \in Vary(BaseLoop(1, depth))}

InnerLoops(id, depth) == Vary(BaseLoop(id, depth))

RECURSIVE NestsFrom(_, _)
NestsFrom(id, depth) ==
  IF id > depth THEN {<<>>}
  ELSE {<<L>> \o N : L \in InnerLoops(id, depth), N \in NestsFrom(id + 1, depth)}

\* The nests of the depth.
Nests(depth) ==
  {<<L>> \o N : L \in OuterLoops(depth), N \in NestsFrom(2, depth)}

\* PI and what the pass owns as a record, and its assignment.
Parallelization ==
  [PI |-> PI, DVMHRegion |-> DVMHRegion, DVMHActual |-> DVMHActual,
   DVMHGetActual |-> DVMHGetActual, mParallelizationInfo |-> mParallelizationInfo,
   diags |-> parDiags]

SetParallelization(E) ==
  /\ PI' = E.PI
  /\ DVMHRegion' = E.DVMHRegion
  /\ DVMHActual' = E.DVMHActual
  /\ DVMHGetActual' = E.DVMHGetActual
  /\ mParallelizationInfo' = E.mParallelizationInfo
  /\ parDiags' = E.diags

\* The traversal of the nest goes on to the loop enclosed in the loop
\* visited as long as there is no item or the item is not final.
TraversalEnds(E, visited) ==
  visited = Len(nest) \/ (E.PI # NoItem /\ E.PI.final)

\* exploitParallelism is called for the next loop of the nest.
CallExploitParallelism ==
  /\ parPc = "traverse"
  /\ level < Len(nest)
  /\ \E E \in {exploitParallelism(Parallelization, nest[level + 1], AccessInfo)} :
       /\ SetParallelization(E)
       /\ level' = IF TraversalEnds(E, level + 1) THEN 0 ELSE level + 1
       /\ parPc' = IF TraversalEnds(E, level + 1) THEN "optimize" ELSE "traverse"
  /\ UNCHANGED <<nest, AccessInfo, parRewriter, parItems, writerVars, passVars>>

\* optimizeLevel is called for the next level of the nest.
CallOptimizeLevel ==
  /\ parPc = "optimize"
  /\ level < Len(nest)
  /\ SetParallelization(optimizeLevel(Parallelization, nest[level + 1], AccessInfo))
  /\ level' = level + 1
  /\ parPc' = IF level + 1 = Len(nest) THEN "done" ELSE "optimize"
  /\ UNCHANGED <<nest, AccessInfo, parRewriter, parItems, writerVars, passVars>>

\* ClangDVMHSMParallelization::runOnModule: the directives are written.
runOnModuleInsert ==
  /\ parPc = "done"
  /\ parRewriter' = insertLocations(parRewriter, Parallelization, nest, 1)
  /\ parPc' = "inserted"
  /\ UNCHANGED <<nest, AccessInfo, level, PI, DVMHRegion, DVMHActual, DVMHGetActual,
                 mParallelizationInfo, parDiags, parItems, writerVars, passVars>>

InitPar ==
  /\ mTransformedFiles = EmptyLedger.tf
  /\ mInsertedDirs = EmptyLedger.dirs
  /\ rewriter = EmptyLedger.rw
  /\ diags = <<>>
  /\ log = <<>>
  /\ pc = "parallelization"
  /\ unit = [vars |-> <<>>, funcs |-> <<>>, alignRules |-> <<>>, distrRules |-> <<>>]
  /\ Decls = EmptyDecls
  /\ Templates = EmptyTemplates
  /\ NotDistrCanonicalDecls = {}
  /\ LocalVariables = {}
  /\ GlobalArrays = {}
  /\ InsertedTemplates = {}
  /\ revision = "lib/APC"
  /\ \E depth \in 1..MaxDepth : nest \in Nests(depth)
  /\ AccessInfo \in BOOLEAN
  /\ level = 0
  /\ PI = NoItem
  /\ DVMHRegion = NoItem
  /\ DVMHActual = NoItem
  /\ DVMHGetActual = NoItem
  /\ mParallelizationInfo = <<>>
  /\ parDiags = <<>>
  /\ parRewriter = [off \in 1..(Len(nest) + 3) |-> <<>>]
  /\ parItems = <<>>
  /\ parPc = "traverse"

NextPar == CallExploitParallelism \/ CallOptimizeLevel \/ runOnModuleInsert

\* The classification of a nest.
SpecPar == InitPar /\ [][NextPar]_vars

(***************************************************************************)
(* Two loops of a function which follow one another. Each of them is the   *)
(* outermost loop of a nest of its own: it is classified without an item,  *)
(* and the items of the loop classified before are kept by the locations   *)
(* of mParallelizationInfo which own them (parItems).                      *)
(***************************************************************************)
\* The offset at which the texts of PL.Exit of the loop are inserted.
AfterLoop(L) == InsertLoc(L) + 1

\* The loop id of a function, which begins at the offset Begin.
SiblingLoop(id, Begin) ==
  [BaseLoop(id, 1) EXCEPT !.Private = {"t"}, !.BeginLoc = Begin,
                          !.EndLoc = Begin + 1]

SiblingVary(L) ==
  {L, [L EXCEPT !.Localized = FALSE], [L EXCEPT !.hostOnly = TRUE],
   [L EXCEPT !.semi = FALSE], [L EXCEPT !.exitIsHeader = FALSE],
   [L EXCEPT !.ReadOccurred = {}], [L EXCEPT !.WriteOccurred = {}],
   [L EXCEPT !.FirstPrivate = {"x"}]}

\* The second loop begins where the texts after the first one are inserted
\* (gap = 0: no character stands between the loops) or later.
SiblingLoops ==
  UNION {{<<L1, L2>> : L2 \in UNION {SiblingVary(SiblingLoop(2, AfterLoop(L1) + gap)) :
                                       gap \in 0..1}} :
           L1 \in SiblingVary(SiblingLoop(1, 1))}

\* The items of the loop classified last.
CurrentItems ==
  [PI |-> PI, DVMHRegion |-> DVMHRegion, DVMHActual |-> DVMHActual,
   DVMHGetActual |-> DVMHGetActual]

\* The items of all the loops classified.
AllItems == IF PI = NoItem THEN parItems ELSE Append(parItems, CurrentItems)

\* The items the location with the anchor owns.
ItemsOf(Items, Anchor) ==
  Items[CHOOSE k \in DOMAIN Items : Items[k].PI.Induction[1] = Anchor]

\* exploitParallelism is called for the next loop of the function, without
\* an item.
CallExploitParallelismForSibling ==
  /\ parPc = "sibling"
  /\ level < Len(nest)
  /\ SetParallelization(
       exploitParallelism(
         [Parallelization EXCEPT !.PI = NoItem, !.DVMHRegion = NoItem,
                                 !.DVMHActual = NoItem, !.DVMHGetActual = NoItem],
         nest[level + 1], AccessInfo))
  /\ parItems' = AllItems
  /\ level' = level + 1
  /\ parPc' = "sibling_optimize"
  /\ UNCHANGED <<nest, AccessInfo, parRewriter, writerVars, passVars>>

\* optimizeLevel is called for the loop classified.
CallOptimizeLevelForSibling ==
  /\ parPc = "sibling_optimize"
  /\ SetParallelization(optimizeLevel(Parallelization, nest[level], AccessInfo))
  /\ parPc' = IF level = Len(nest) THEN "sibling_done" ELSE "sibling"
  /\ UNCHANGED <<nest, AccessInfo, level, parRewriter, parItems, writerVars, passVars>>

\* runOnModule: the loop over the blocks of the function and over the
\* locations of a block, each location with its own items.
RECURSIVE insertSiblingLocations(_, _, _, _, _)
insertSiblingLocations(W, Items, Nest, Info, i) ==
  IF i > Len(Info) THEN W
  ELSE insertSiblingLocations(
         insertExit(
           insertEntry(W, ItemsOf(Items, Info[i].Anchor), Nest, Nest[Info[i].Anchor],
                       Info[i].Entry, 1),
           ItemsOf(Items, Info[i].Anchor), Nest[Info[i].Anchor], Info[i].Exit, 1),
         Items, Nest, Info, i + 1)

\* ClangDVMHSMParallelization::runOnModule: the directives of the loops of
\* the function are written.
runOnModuleInsertSiblings ==
  /\ parPc = "sibling_done"
  /\ parRewriter' = insertSiblingLocations(parRewriter, AllItems, nest,
                                           mParallelizationInfo, 1)
  /\ parPc' = "sibling_inserted"
  /\ UNCHANGED <<nest, AccessInfo, level, PI, DVMHRegion, DVMHActual, DVMHGetActual,
                 mParallelizationInfo, parDiags, parItems, writerVars, passVars>>

\* The number of locations up to which the pass is invoked once more.
MaxLocations == 2

\* runOnModule is invoked once more for the module: the loops of the function
\* are classified again, each without an item. The pass has no releaseMemory
\* of its own and runOnModule does not clear mParallelizationInfo, so the
\* locations of the invocation before and the items they own are kept; the
\* Rewriter of the module keeps its texts.
runOnModuleAgain ==
  /\ parPc = "sibling_inserted"
  /\ Len(mParallelizationInfo) <= MaxLocations
  /\ parItems' = AllItems
  /\ PI' = NoItem
  /\ DVMHRegion' = NoItem
  /\ DVMHActual' = NoItem
  /\ DVMHGetActual' = NoItem
  /\ level' = 0
  /\ parPc' = "sibling"
  /\ UNCHANGED <<nest, AccessInfo, mParallelizationInfo, parDiags, parRewriter,
                 writerVars, passVars>>

InitSiblings ==
  /\ mTransformedFiles = EmptyLedger.tf
  /\ mInsertedDirs = EmptyLedger.dirs
  /\ rewriter = EmptyLedger.rw
  /\ diags = <<>>
  /\ log = <<>>
  /\ pc = "parallelization"
  /\ unit = [vars |-> <<>>, funcs |-> <<>>, alignRules |-> <<>>, distrRules |-> <<>>]
  /\ Decls = EmptyDecls
  /\ Templates = EmptyTemplates
  /\ NotDistrCanonicalDecls = {}
  /\ LocalVariables = {}
  /\ GlobalArrays = {}
  /\ InsertedTemplates = {}
  /\ revision = "lib/APC"
  /\ nest \in SiblingLoops
  /\ AccessInfo \in BOOLEAN
  /\ level = 0
  /\ PI = NoItem
  /\ DVMHRegion = NoItem
  /\ DVMHActual = NoItem
  /\ DVMHGetActual = NoItem
  /\ mParallelizationInfo = <<>>
  /\ parDiags = <<>>
  /\ parRewriter = [off \in 1..(AfterLoop(nest[Len(nest)])) |-> <<>>]
  /\ parItems = <<>>
  /\ parPc = "sibling"

NextSiblings ==
  \/ CallExploitParallelismForSibling
  \/ CallOptimizeLevelForSibling
  \/ runOnModuleInsertSiblings

\* The classification of two loops which follow one another.
SpecSiblings == InitSiblings /\ [][NextSiblings]_vars

NextInvocations == NextSiblings \/ runOnModuleAgain

\* The pass is invoked for the module more than once.
SpecInvocations == InitSiblings /\ [][NextInvocations]_vars

(***************************************************************************)
(* Properties of the classification.                                       *)
(***************************************************************************)

\* C9: in every state of the classification of a nest, a parallel item
\* whose possible across depth is not zero has at most that many induction
\* variables, and it is final if it has exactly that many.
C9_InductionWithinAcrossDepth ==
  PI # NoItem /\ PI.PossibleAcrossDepth # 0 =>
    /\ Len(PI.Induction) <= PI.PossibleAcrossDepth
    /\ Len(PI.Induction) = PI.PossibleAcrossDepth => PI.final

\* The item holds what it held when its flag was set, and the flag is set
\* still.
Immutable(Item) ==
  Item # NoItem /\ Item.frozen # NoItem =>
    Item.final /\ Content(Item) = Item.frozen

\* C10: in every state of the classification of a nest, a region and a
\* parallel item whose finalized flag has been set hold exactly the
\* variables, induction variables, across entries, direct-access entries
\* and host-only flag they held when the flag was set, and the flag is set.
C10_FinalizedItemImmutable == Immutable(PI) /\ Immutable(DVMHRegion)

(***************************************************************************)
(* Properties of the texts of the directives.                              *)
(***************************************************************************)

\* The token of a reduction kind in a reduction clause.
KindToken(Kind) ==
  CASE Kind = "RK_Add" -> "sum"
    [] Kind = "RK_Mult" -> "product"
    [] Kind = "RK_Or" -> "or"
    [] Kind = "RK_And" -> "and"
    [] Kind = "RK_Xor" -> "xor"
    [] Kind = "RK_Max" -> "max"
    [] Kind = "RK_Min" -> "min"

\* The places of a text where the variable v is grouped under the token tok.
GroupsOf(text, tok, v) ==
  {i \in 1..(Len(text) - 3) :
     text[i] = tok /\ text[i + 1] = "(" /\ text[i + 2] = v /\ text[i + 3] = ")"}

\* The variables a text groups under the token of a kind.
ParsedReduction(text, Kind) ==
  {v \in Range(SortedNames) : GroupsOf(text, KindToken(Kind), v) # {}}

\* The texts of the parallel directives written.
ParallelTexts ==
  {t \in UNION {Range(parRewriter[off]) : off \in DOMAIN parRewriter} :
     t[1] = "#pragma dvm parallel"}

\* C11: the text of a parallel directive groups every reduction variable of
\* the item under the token of its kind exactly once and under no other
\* token, so that the groups of the text read back are the lists of the item.
C11_ReductionKindsRoundTrip ==
  parPc = "inserted" =>
    \A text \in ParallelTexts : \A Kind \in Range(ReductionKinds) :
      /\ ParsedReduction(text, Kind) = PI.Reduction[Kind]
      /\ \A v \in PI.Reduction[Kind] :
           /\ Cardinality(GroupsOf(text, KindToken(Kind), v)) = 1
           /\ \A Other \in Range(ReductionKinds) \ {Kind} :
                GroupsOf(text, KindToken(Other), v) = {}

\* The nest is two loops which may start and extend an item: no first and
\* last privates, an induction variable each, the outer one in a perfect
\* nest with an enclosed region, the inner one not host only and with the
\* private and reduction lists of the item of the outer one.
TwoNestedLoops ==
  /\ Len(nest) = 2
  /\ \A i \in 1..2 :
       nest[i].FirstPrivate = {} /\ nest[i].LastPrivate = {} /\ nest[i].Induction # ""
  /\ nest[1].perfect /\ nest[1].numRegions # 0
  /\ ~nest[2].hostOnly
  /\ nest[2].Private = nest[1].Private \ {nest[2].Induction}
  /\ nest[2].Reduction = nest[1].Reduction

\* There is exactly one parallel item, of the two loops of the nest.
OneTwoDimensionalItem ==
  /\ PI # NoItem
  /\ PI.Induction = <<1, 2>>
  /\ Cardinality({i \in DOMAIN mParallelizationInfo :
                    "parallel" \in Range(mParallelizationInfo[i].Entry)}) = 1

\* C12 as the specification states it: two nested loops which may start and
\* extend an item give one item of two dimensions, whatever the outer loop.
C12_TwoNestedLoopsOneItem ==
  parPc # "traverse" /\ TwoNestedLoops => OneTwoDimensionalItem

\* C12: two nested loops which may start and extend an item give one item of
\* two dimensions if the outer loop is localized and not host only and the
\* loops have no regular dependence.
C12_LocalizedLoopsOneItem ==
  /\ parPc # "traverse"
  /\ TwoNestedLoops
  /\ nest[1].Localized /\ ~nest[1].hostOnly
  /\ nest[1].Dependence = <<>> /\ nest[2].Dependence = <<>>
  => OneTwoDimensionalItem

\* Two localized loops with the same reduction and no regular dependence
\* have been classified and their directive is written.
C12_TwoDimensionalItemWritten ==
  /\ parPc = "inserted"
  /\ TwoNestedLoops
  /\ nest[1].Localized /\ ~nest[1].hostOnly
  /\ nest[1].Reduction["RK_Add"] # {}
  /\ nest[1].Dependence = <<>> /\ nest[2].Dependence = <<>>
  /\ PI.Induction = <<1, 2>>

\* ---- C13 ----

\* The subscripts of the accesses to the array in the scope of the loop.
SubscriptsOf(L, name) ==
  UNION {{L.accesses[k].subs[i] : i \in DOMAIN L.accesses[k].subs} :
           k \in {j \in DOMAIN L.accesses : L.accesses[j].array = name}}

\* The dimension of the array which depends on the induction of the loop.
DependentDimOf(L, name) ==
  CHOOSE d \in 0..MaxDepth :
    \E sub \in SubscriptsOf(L, name) :
      sub.dim = d /\ \E m \in DOMAIN sub.monoms : sub.monoms[m].Column = L.id

\* The number of levels for which the distances of a vector stay monotone:
\* a negative distance of a later level must not reach the distance of the
\* first one.
MonotoneDepth(Dist) ==
  CHOOSE k \in 1..Len(Dist) :
    /\ \A j \in 2..k : ~(Dist[j].first < 0 /\ 0 - Dist[j].first >= Dist[1].first)
    /\ k = Len(Dist)
       \/ (Dist[k + 1].first < 0 /\ 0 - Dist[k + 1].first >= Dist[1].first)

\* The distance of a vector as a member of an across pair.
FrontDistance(Dist) == IF Dist = <<>> THEN None ELSE Some(Dist[1].second)

\* The number of inductions of the item the loop is classified with.
InductionsBefore == IF PI = NoItem THEN 0 ELSE Len(PI.Induction)

\* The across entries of the array before the loop is classified.
AcrossBefore(name) ==
  IF PI # NoItem /\ name \in DOMAIN PI.Dependence THEN PI.Dependence[name]
  ELSE <<>>

\* exploitParallelism has accepted the dependences of the loop: the item
\* has got the induction of the loop.
DependencesAccepted(L) ==
  /\ CallExploitParallelism
  /\ L.Dependence # <<>>
  /\ PI' # NoItem
  /\ Len(PI'.Induction) = InductionsBefore + 1

\* What C13 states of one dependence of a loop whose dependences have been
\* accepted.
AcrossRecorded(L, D) ==
  /\ D.name \in DOMAIN PI'.Dependence
  /\ DependentDimOf(L, D.name) + 1 \in DOMAIN PI'.Dependence[D.name]
  /\ PI'.Dependence[D.name][DependentDimOf(L, D.name) + 1] =
       IF L.step < 0
       THEN [first |-> FrontDistance(D.Anti), second |-> FrontDistance(D.Flow)]
       ELSE [first |-> FrontDistance(D.Flow), second |-> FrontDistance(D.Anti)]

OtherDimsKept(L, D) ==
  \A d \in DOMAIN AcrossBefore(D.name) \ {DependentDimOf(L, D.name) + 1} :
    /\ d \in DOMAIN PI'.Dependence[D.name]
    /\ PI'.Dependence[D.name][d] = AcrossBefore(D.name)[d]

\* The largest number of subscripts of an access to the array in the scope
\* of the loop.
NumberOfSubscripts(L, name) ==
  CHOOSE n \in 0..MaxDepth :
    /\ \A k \in DOMAIN L.accesses :
         L.accesses[k].array = name => Len(L.accesses[k].subs) <= n
    /\ n = 0 \/ \E k \in DOMAIN L.accesses :
                  L.accesses[k].array = name /\ Len(L.accesses[k].subs) = n

\* The entry has as many dimensions as the accesses have subscripts, and the
\* other dimensions it had and still has are kept.
OtherDimsKeptWithinSize(L, D) ==
  /\ Len(PI'.Dependence[D.name]) = NumberOfSubscripts(L, D.name)
  /\ \A d \in (DOMAIN AcrossBefore(D.name) \cap DOMAIN PI'.Dependence[D.name])
              \ {DependentDimOf(L, D.name) + 1} :
       PI'.Dependence[D.name][d] = AcrossBefore(D.name)[d]

DepthWithinMonotone(D) ==
  /\ D.Flow # <<>> =>
       PI'.PossibleAcrossDepth <= InductionsBefore + MonotoneDepth(D.Flow)
  /\ D.Anti # <<>> =>
       PI'.PossibleAcrossDepth <= InductionsBefore + MonotoneDepth(D.Anti)

AcrossStep ==
  \A l \in 1..MaxDepth :
    l = level + 1 /\ l <= Len(nest) /\ DependencesAccepted(nest[l]) =>
      \A i \in DOMAIN nest[l].Dependence :
        /\ AcrossRecorded(nest[l], nest[l].Dependence[i])
        /\ OtherDimsKept(nest[l], nest[l].Dependence[i])
        /\ DepthWithinMonotone(nest[l].Dependence[i])

\* C13: when exploitParallelism accepts the dependences of a loop, the
\* across entry of every array of a dependence holds, in the dimension which
\* depends on the loop, the flow and the anti distance in this order for a
\* step which is not negative and in the reverse order for a negative step;
\* the entries of the other dimensions of the array are kept; and the
\* possible across depth of the item is at most the number of inductions
\* the item had plus the number of levels for which the flow and the anti
\* distances are monotone.
C13_AcrossPairOrientedByStep == [][AcrossStep]_vars

AcrossStepWithinSize ==
  \A l \in 1..MaxDepth :
    l = level + 1 /\ l <= Len(nest) /\ DependencesAccepted(nest[l]) =>
      \A i \in DOMAIN nest[l].Dependence :
        /\ AcrossRecorded(nest[l], nest[l].Dependence[i])
        /\ OtherDimsKeptWithinSize(nest[l], nest[l].Dependence[i])
        /\ DepthWithinMonotone(nest[l].Dependence[i])

\* C13, with the entry resized: as C13_AcrossPairOrientedByStep, but the
\* entry of the array is resized to the largest number of subscripts of the
\* accesses to the array in the scope of the loop, and the entries of the
\* other dimensions are kept as far as they are within this size.
C13_AcrossPairWithinResizedEntry == [][AcrossStepWithinSize]_vars

\* The dependence of flow distance 1 and anti distance 2 of a loop of a
\* descending step has been recorded in the first dimension of A, and the
\* dependence of the loop it encloses in the second dimension.
C13_BothDimensionsRecorded ==
  /\ parPc # "traverse"
  /\ Len(nest) = 2
  /\ nest[1].step < 0 /\ nest[2].step >= 0
  /\ nest[1].Dependence = TwoDimDependence /\ nest[2].Dependence = TwoDimDependence
  /\ PI # NoItem
  /\ PI.Induction = <<1, 2>>
  /\ "A" \in DOMAIN PI.Dependence
  /\ PI.Dependence["A"] = <<[first |-> Some(2), second |-> Some(1)],
                            [first |-> Some(1), second |-> Some(2)]>>

\* ---- C14 ----

\* The calls of insertDataDirective made by the step.
NewDataCalls ==
  {i \in (Len(log) + 1)..Len(log') : log'[i].fn = "insertDataDirective"}

\* The call left the text and the ledger as they were.
CallRejected(i) == log'[i].res \in {"macro", "notsingle"}

\* The merged redeclarations of the unit.
MergedRedecls ==
  UNION {{unit.vars[v].redecls[r] : r \in DOMAIN unit.vars[v].redecls} :
           v \in DOMAIN unit.vars}

AliasesAgree ==
  pc # "start" =>
    \A R \in MergedRedecls : \A l1, l2 \in AllLocs(R) : Decls[l1] = Decls[l2]

StartsOf(R) == {R.start} \cup {R.aliases[i].start : i \in DOMAIN R.aliases}

\* The global redeclarations of the unit.
GlobalRedecls ==
  UNION {{unit.vars[v].redecls[r] : r \in DOMAIN unit.vars[v].redecls} :
           v \in {w \in DOMAIN unit.vars : unit.vars[w].func = ""}}

\* Every other global declaration shares its statement with all the
\* locations of the redeclaration or with none of them.
MergedAlike(R) ==
  \A R2 \in GlobalRedecls \ {R} :
    StartsOf(R) \cap StartsOf(R2) \in {{}, StartsOf(R)}

AliasesAgreeWhenMergedAlike ==
  pc # "start" =>
    \A R \in GlobalRedecls :
      /\ \A l \in AllLocs(R) : Decls[l] # "none"
      /\ MergedAlike(R) => \A l1, l2 \in AllLocs(R) : Decls[l1] = Decls[l2]

NewCalls == (Len(log) + 1)..Len(log')

\* C15: a step of the pass all of whose attempts to insert a directive are
\* rejected with a diagnostic (macro location, declaration which is not
\* single, other directive at the location) writes no text to the source.
C15_RejectedAttemptWritesNothing ==
  [][(NewCalls # {}
      /\ \A i \in NewCalls : log'[i].res \in {"macro", "notsingle", "conflict"})
     => rewriter' = rewriter]_vars

\* ---- C16 ----

\* The data directives written to the source, as pairs of a location and an
\* index in the texts written there.
DirectivesWritten(rw) ==
  {p \in FileLocs \X (1..(2 * MaxCalls + 4)) :
     p[2] <= Len(rw[p[1]]) /\ rw[p[1]][p[2]][1] \in DataKinds}

\* The locations which have a directive in mInsertedDirs.
DirectiveLocs(dirs) == {l \in FileLocs : dirs[l] # NoDir}

\* The calls of the step which wrote their directive.
InsertedCalls == {i \in NewCalls : log'[i].res = "inserted"}

\* The error which names the directive has been reported by the step.
ErrorReported(i) ==
  \E k \in (Len(diags) + 1)..Len(diags') :
    diags'[k] = [id |-> "err_apc_insert_dvm_directive", loc |-> log'[i].where,
                 arg |-> log'[i].text]

\* C16: a call of insertDataDirective with an insertion point in a macro
\* expansion reports the error which names the directive, writes no
\* directive and adds nothing to mInsertedDirs and mTransformedFiles: the
\* directives written and the entries of mInsertedDirs added by a step are
\* those of its calls which were not rejected, and a step all of whose calls
\* have a macro location leaves the ledger as it was. No call reaches
\* insertDirective and getLocationToTransform with a macro location.
C16_MacroLocationRejected ==
  [][/\ \A i \in NewCalls :
          /\ isMacroID(log'[i].where) => log'[i].res = "macro" /\ ErrorReported(i)
          /\ log'[i].res \in {"inserted", "same", "conflict", "ledger"} =>
               ~isMacroID(log'[i].where)
     /\ Cardinality(DirectivesWritten(rewriter'))
          = Cardinality(DirectivesWritten(rewriter)) + Cardinality(InsertedCalls)
     /\ Cardinality(DirectiveLocs(mInsertedDirs'))
          <= Cardinality(DirectiveLocs(mInsertedDirs)) + Cardinality(InsertedCalls)
     /\ (NewCalls # {} /\ \A i \in NewCalls : isMacroID(log'[i].where)) =>
          /\ mInsertedDirs' = mInsertedDirs
          /\ mTransformedFiles' = mTransformedFiles]_vars

\* A directive for a redeclaration which starts in a macro expansion has
\* been rejected, and a directive for another redeclaration of the variable
\* has been written by the same run.
C16_MacroCallRejectedAmongOthers ==
  /\ \E i \in DOMAIN log : log[i].res = "macro" /\ isMacroID(log[i].where)
  /\ \E i \in DOMAIN log : log[i].res = "inserted"
  /\ \E k \in DOMAIN diags :
       diags[k].id = "note_apc_insert_macro_prevent"

\* ---- C17 ----

\* The kind of the item a text written stands for.
TextKind(text) ==
  CASE text[1] = "#pragma dvm actual" -> "actual"
    [] text[1] = "#pragma dvm region" -> "region"
    [] text[1] = "#pragma dvm parallel" -> "parallel"
    [] text[1] = "#pragma dvm get_actual" -> "get_actual"
    [] text[1] = "}" -> "marker"

\* The kinds of the texts at an offset which are among the given kinds, in
\* the order of the text.
RECURSIVE KindsAt(_, _, _)
KindsAt(texts, kinds, i) ==
  IF i > Len(texts) THEN <<>>
  ELSE (IF TextKind(texts[i]) \in kinds THEN <<TextKind(texts[i])>> ELSE <<>>)
       \o KindsAt(texts, kinds, i + 1)

\* The items of a list whose text is written: an actual or get_actual item
\* without memory has none.
RECURSIVE WrittenKinds(_, _, _)
WrittenKinds(Items, list, i) ==
  IF i > Len(list) THEN <<>>
  ELSE (IF (list[i] = "actual" /\ Items.DVMHActual.Memory = {})
           \/ (list[i] = "get_actual" /\ Items.DVMHGetActual.Memory = {})
        THEN <<>> ELSE <<list[i]>>)
       \o WrittenKinds(Items, list, i + 1)

\* The recorded lists of the loop with the anchor: Entry and Exit of its
\* locations.
RECURSIVE EntryOf(_, _, _)
EntryOf(Info, Anchor, i) ==
  IF i > Len(Info) THEN <<>>
  ELSE (IF Info[i].Anchor = Anchor THEN Info[i].Entry ELSE <<>>)
       \o EntryOf(Info, Anchor, i + 1)

RECURSIVE ExitOf(_, _, _)
ExitOf(Info, Anchor, i) ==
  IF i > Len(Info) THEN <<>>
  ELSE (IF Info[i].Anchor = Anchor THEN Info[i].Exit ELSE <<>>)
       \o ExitOf(Info, Anchor, i + 1)

Anchors == {mParallelizationInfo[i].Anchor : i \in DOMAIN mParallelizationInfo}

EntryWritten(a) ==
  WrittenKinds(ItemsOf(AllItems, a), EntryOf(mParallelizationInfo, a, 1), 1)

ExitWritten(a) ==
  WrittenKinds(ItemsOf(AllItems, a), ExitOf(mParallelizationInfo, a, 1), 1)

\* The texts of the loop stand in the recorded order, the texts of Entry at
\* the begin of the loop and the texts of Exit after its last token or after
\* the semicolon which follows it; Entry is a suffix of actual, region,
\* parallel and Exit one of marker, get_actual.
InRecordedOrder(a) ==
  /\ KindsAt(parRewriter[nest[a].BeginLoc], {"actual", "region", "parallel"}, 1)
       = EntryWritten(a)
  /\ KindsAt(parRewriter[AfterLoop(nest[a])], {"marker", "get_actual"}, 1)
       = ExitWritten(a)
  /\ AfterLoop(nest[a]) = (IF nest[a].semi THEN nest[a].EndLoc + 2 ELSE nest[a].EndLoc + 1)
  /\ EntryWritten(a) \in {<<"actual", "region", "parallel">>, <<"region", "parallel">>,
                          <<"parallel">>}
  /\ ExitWritten(a) \in {<<"marker", "get_actual">>, <<"marker">>, <<>>}

\* The offsets at which a text of the loop is inserted.
InsertionPoints(a) ==
  {nest[a].BeginLoc} \cup (IF ExitWritten(a) # <<>> THEN {AfterLoop(nest[a])} ELSE {})

\* C17: the texts of the Entry items of a loop are written before the loop
\* in the recorded order and the texts of its Exit items after the loop, after
\* the semicolon which follows it if there is one, in the recorded order:
\* actual, region, parallel before and the mark of the end of the region,
\* get_actual after; and no offset is an insertion point of two locations
\* with different anchors.
C17_RecordedOrderAndOwnPoints ==
  parPc = "sibling_inserted" =>
    /\ \A a \in Anchors : InRecordedOrder(a)
    /\ \A a, b \in Anchors : a # b => InsertionPoints(a) \cap InsertionPoints(b) = {}

\* C17, with the loops which follow one another without a character between
\* them: the texts are written in the recorded order as in
\* C17_RecordedOrderAndOwnPoints; two locations with different anchors share
\* an insertion point only if it is the offset after the first loop at which
\* the second loop begins, and there all the texts of the Exit of the first
\* loop stand before the texts of the Entry of the second one.
C17_RecordedOrderSharedPointKept ==
  parPc = "sibling_inserted" =>
    /\ \A a \in Anchors : InRecordedOrder(a)
    /\ \A a, b \in Anchors :
         a < b =>
           /\ InsertionPoints(a) \cap InsertionPoints(b)
                \subseteq {AfterLoop(nest[a])} \cap {nest[b].BeginLoc}
           /\ nest[b].BeginLoc = AfterLoop(nest[a]) =>
                KindsAt(parRewriter[nest[b].BeginLoc],
                        {"actual", "region", "parallel", "marker", "get_actual"}, 1)
                  = ExitWritten(a) \o EntryWritten(b)

\* The directives of two loops have been written: the first loop has a
\* region and the data directives around it, and the second one begins at
\* the offset after the first one.
C17_TwoLoopsShareAPoint ==
  /\ parPc = "sibling_inserted"
  /\ Anchors = {1, 2}
  /\ EntryWritten(1) = <<"actual", "region", "parallel">>
  /\ ExitWritten(1) = <<"marker", "get_actual">>
  /\ nest[2].BeginLoc = AfterLoop(nest[1])
  /\ Len(parRewriter[nest[2].BeginLoc]) >= 3

\* ---- C18 ----

\* C18: when runOnModule begins to classify the loops of a module, no
\* ParallelLocation of an invocation before is left in mParallelizationInfo,
\* and when the writer begins to insert the directives of a module, no
\* transformed file and no inserted directive is left in the ledger.
C18_EmptyAtStartOfInvocation ==
  /\ (parPc = "sibling" /\ level = 0) => mParallelizationInfo = <<>>
  /\ (pc = "align" /\ log = <<>>) =>
       /\ mTransformedFiles = EmptyLedger.tf
       /\ mInsertedDirs = EmptyLedger.dirs

(***************************************************************************)
(* Templates which have not been placed.                                   *)
(***************************************************************************)

\* The declarations of a template written into the files, extern or not.
DeclarationsWritten(t) ==
  WrittenInFile("a.c", TemplateTextOf(t, FALSE), MaxOff)
    + WrittenInFile("a.c", TemplateTextOf(t, TRUE), MaxOff)
    + WrittenInFile("h.h", TemplateTextOf(t, FALSE), MaxOff)
    + WrittenInFile("h.h", TemplateTextOf(t, TRUE), MaxOff)
    + WrittenInFile("b.c", TemplateTextOf(t, FALSE), MaxOff)
    + WrittenInFile("b.c", TemplateTextOf(t, TRUE), MaxOff)

\* The err_apc_insert_template diagnostics which name the template.
NeverPlacedReports(t) ==
  {k \in 1..Len(diags) :
     diags[k].id = "err_apc_insert_template" /\ diags[k].arg[2] = t}

\* C19: after insertDistibution, err_apc_insert_template is reported exactly
\* once for a template of the distribution rules for which no declaration
\* was written into any file, and is not reported for any other template.
C19_NeverPlacedReportedOnce ==
  /\ pc = "done" =>
       \A t \in TplNames :
         Cardinality(NeverPlacedReports(t)) =
           IF t \in Range(unit.distrRules) /\ DeclarationsWritten(t) = 0 THEN 1 ELSE 0
  /\ pc # "done" => \A t \in TplNames : NeverPlacedReports(t) = {}

\* One template has been placed and the other is reported.
C19_OnePlacedOneReported ==
  /\ pc = "done"
  /\ DeclarationsWritten("T1") > 0
  /\ NeverPlacedReports("T1") = {}
  /\ DeclarationsWritten("T2") = 0
  /\ Cardinality(NeverPlacedReports("T2")) = 1

(***************************************************************************)
(* Align rules of the parameters of a function.                            *)
(***************************************************************************)

\* The align rules of the parameters of a function, in the order of the rules.
ParamRulesOf(F) == SelectSeq(unit.alignRules, LAMBDA AR : AR.func = F /\ AR.isParam)

\* The names an inherit directive of the function lists.
InheritedNames(F) == [i \in 1..Len(ParamRulesOf(F)) |-> ParamRulesOf(F)[i].var]

\* The locations where the parameters with an align rule are declared.
ParamDeclLocs ==
  UNION {RedeclLocsOf(VarNamed(unit, unit.alignRules[i].var)) :
           i \in {j \in RuleIdxs(unit) : unit.alignRules[j].isParam}}

\* Some rule of a variable which is not a parameter aligns the variable,
\* declared in the file, with the template.
AlignedInFile(f, t) ==
  \E i \in RuleIdxs(unit) :
    /\ ~unit.alignRules[i].isParam
    /\ unit.alignRules[i].alignWith = t
    /\ \E l \in RedeclLocsOf(VarNamed(unit, unit.alignRules[i].var)) : l.fid = f

InheritCalls == {k \in 1..Len(log) : log[k].text[1] = "inherit"}

\* The attempts to insert an inherit directive before a redeclaration.
InheritCallsFor(R) ==
  {k \in InheritCalls :
     /\ log[k].fn = "insertDataDirective"
     /\ log[k].declLoc = R.loc
     /\ log[k].where = R.start}

\* The rules of the function have been processed.
FunctionProcessed(FD) == pc # "start" /\ FD.name \notin LocalVariables

GlobalEntries ==
  UNION {{[var |-> unit.vars[i].name, loc |-> e.loc, start |-> e.start] :
            e \in UNION {Range(MergedLocs(unit.vars[i].redecls[r])) :
                           r \in 1..Len(unit.vars[i].redecls)}} :
         i \in {j \in 1..Len(unit.vars) : unit.vars[j].func = ""}}

\* Another variable is declared in the statement of the entry.
SharesStatement(e) ==
  \E o \in GlobalEntries : o.var # e.var /\ o.start = e.start

\* The declarations of the functions with a body.
FunctionDeclLocs ==
  UNION {Range(unit.funcs[i].declLocs) :
           i \in {j \in 1..Len(unit.funcs) :
                    \E r \in 1..Len(unit.funcs[j].redecls) :
                      unit.funcs[j].redecls[r].hasBody}}

GlobalFlagsSet ==
  \A e \in GlobalEntries :
    Decls[e.loc] = IF SharesStatement(e) THEN "multi" ELSE "single"

ChangedLocs == {l \in FileLocs : rewriter'[l] # rewriter[l]}

RecordedLocs == {l \in FileLocs : mInsertedDirs'[l] # mInsertedDirs[l]}

\* The location of the file of Loc with the offset of Loc in the
\* representation fid.
SameOffsetIn(fid, Loc) == [fid |-> fid, off |-> Loc.off]

\* A call of insertDirective resolves Loc.
ResolutionStep(Loc) ==
  IF mTransformedFiles[getFilename(Loc)] # 0
  THEN /\ mTransformedFiles' = mTransformedFiles
       /\ ChangedLocs \subseteq {SameOffsetIn(mTransformedFiles[getFilename(Loc)], Loc)}
       /\ RecordedLocs \subseteq {SameOffsetIn(mTransformedFiles[getFilename(Loc)], Loc)}
  ELSE /\ mTransformedFiles' = [mTransformedFiles EXCEPT ![getFilename(Loc)] = Loc.fid]
       /\ ChangedLocs = {Loc}
       /\ RecordedLocs = {Loc}
       /\ \A l \in FileLocs :
            getFilename(l) = getFilename(Loc) =>
              getLocationToTransform([tf |-> mTransformedFiles'], l)
                = SameOffsetIn(Loc.fid, l)

LoopOfStep == nest[level + 1]

\* The loop may start an item.
Qualifies(L) == L.FirstPrivate = {} /\ L.LastPrivate = {} /\ L.Induction # ""

\* exploitParallelism is called without an item.
CalledWithoutItem == parPc = "traverse" /\ level < Len(nest) /\ PI = NoItem

NothingRegistered ==
  /\ mParallelizationInfo' = mParallelizationInfo
  /\ DVMHRegion' = NoItem
  /\ DVMHActual' = NoItem
  /\ DVMHGetActual' = NoItem

CalledWithItem == parPc = "traverse" /\ level < Len(nest) /\ PI # NoItem

\* The clauses of the loop are the ones of the item.
MatchesItem(L) ==
  /\ ~L.hostOnly
  /\ L.Private = PI.Private \ {L.Induction}
  /\ L.Reduction = PI.Reduction

\* C24: exploitParallelism called with an item appends the loop to the
\* inductions of the item only if the loop is not host only, its private
\* variables are the ones of the item without the induction variable of the
\* loop and its reductions are the ones of the item; if one of the three
\* does not hold, the item is final after the call and its inductions are
\* the ones it had.
C24_ExtendedOnlyOnMatch ==
  [][CalledWithItem =>
       /\ PI'.Induction # PI.Induction =>
            /\ MatchesItem(LoopOfStep)
            /\ PI'.Induction = Append(PI.Induction, LoopOfStep.id)
       /\ ~MatchesItem(LoopOfStep) =>
            /\ PI'.final
            /\ PI'.Induction = PI.Induction]_vars

\* The item of the outer loop held the induction variable of the inner loop
\* as a private variable and has been extended with the inner loop.
C24_InnerLoopAppended ==
  /\ parPc = "optimize"
  /\ Len(nest) = 2
  /\ PI # NoItem
  /\ PI.Induction = <<1, 2>>
  /\ nest[2].Induction \in nest[1].Private
  /\ nest[2].Induction \notin PI.Private
  /\ PI.Private = nest[2].Private

(***************************************************************************)
(* The region and the actualization directives of a new item.              *)
(***************************************************************************)

\* The actualization directive exists iff the set is not empty, and holds
\* the set.
StagedIffAccessed(Item, kind, Memory) ==
  IF Memory = {} THEN Item = NoItem
  ELSE Item # NoItem /\ Item.kind = kind /\ Item.Memory = Memory

RegionWith(Region, HostOnly, In, Out, Local) ==
  /\ Region # NoItem
  /\ Region.kind = "region"
  /\ Region.HostOnly = HostOnly
  /\ Region.ReadOccurred = In
  /\ Region.WriteOccurred = Out
  /\ Region.Private = Local

\* The items made for the loop L which starts an item.
ItemsOfNewNest(L) ==
  IF L.Localized /\ ~L.hostOnly
  THEN /\ RegionWith(DVMHRegion', FALSE, L.ReadOccurred, L.WriteOccurred, L.Private)
       /\ StagedIffAccessed(DVMHActual', "actual", L.ReadOccurred)
       /\ StagedIffAccessed(DVMHGetActual', "get_actual", L.WriteOccurred)
       /\ PI'.Parent
  ELSE IF L.Localized
  THEN /\ RegionWith(DVMHRegion', TRUE, {}, {}, {})
       /\ DVMHActual' = NoItem
       /\ DVMHGetActual' = NoItem
       /\ PI'.Parent
  ELSE /\ DVMHRegion' = NoItem
       /\ DVMHActual' = NoItem
       /\ DVMHGetActual' = NoItem
       /\ ~PI'.Parent

\* C25: when exploitParallelism starts an item for a loop, a localized loop
\* which is not host only gets a region with the read, write and private
\* variables of the loop as its in, out and local clauses, an actual
\* directive with the variables read iff there are any and a get_actual
\* directive with the variables written iff there are any; a localized host
\* only loop gets a host only region without clauses and no actualization
\* directive; a loop which is not localized gets none of them.
C25_RegionAndActualizationOfNewNest ==
  [][(CalledWithoutItem /\ PI' # NoItem) => ItemsOfNewNest(LoopOfStep)]_vars

\* The directives of a localized loop which reads and writes have been
\* written: actual, region and parallel before the loop in this order.
C25_StagedRegionWritten ==
  /\ parPc = "inserted"
  /\ nest[1].Localized /\ ~nest[1].hostOnly
  /\ DVMHRegion # NoItem /\ DVMHRegion.ReadOccurred = {"A"}
  /\ DVMHActual # NoItem /\ DVMHGetActual # NoItem
  /\ Len(parRewriter[nest[1].BeginLoc]) = 3
  /\ parRewriter[nest[1].BeginLoc][1] = ActualText(DVMHActual)
  /\ parRewriter[nest[1].BeginLoc][2] = RegionText(DVMHRegion)


(***************************************************************************)
(* C26: the mapping of the arrays to the loops of a parallel item.         *)
(***************************************************************************)
\* The loop of the nest at whose header the parallel item is registered.
MappedLoops == {k \in DOMAIN nest : HasParallelLocation(mParallelizationInfo, nest[k])}

\* The accesses in the scope of the loop of the item.
MappedAccesses == nest[CHOOSE k \in MappedLoops : TRUE].accesses

\* The monoms of a subscript with a coefficient which is not zero at an
\* induction variable of the item.
BindingMonoms(sub) ==
  {m \in DOMAIN sub.monoms :
     sub.monoms[m].Value # 0 /\ sub.monoms[m].Column \in Range(PI.Induction)}

\* The affine subscripts of the accesses to the array in the dimension d
\* (counted from 1) which bind it: <<access, subscript>>.
BindingSubscripts(array, d) ==
  {p \in UNION {{<<k, s>> : s \in DOMAIN MappedAccesses[k].subs} :
                  k \in DOMAIN MappedAccesses} :
     LET A == MappedAccesses[p[1]]
         sub == A.subs[p[2]]
     IN  /\ A.estimate /\ A.array = array
         /\ sub.kind = "affine" /\ sub.dim + 1 = d
         /\ BindingMonoms(sub) # {}}

\* The first of the binding subscripts in the order of the accesses.
FirstBinding(Q) ==
  CHOOSE p \in Q : \A q \in Q : p[1] < q[1] \/ (p[1] = q[1] /\ p[2] <= q[2])

\* The coefficient which governs the dimension: the last monom of the
\* subscript which binds it.
GoverningMonom(p) ==
  LET sub == MappedAccesses[p[1]].subs[p[2]]
      M == BindingMonoms(sub)
  IN  sub.monoms[CHOOSE m \in M : \A n \in M : n <= m]

\* A loop with one access A[i], no dependence and nothing which prevents
\* its execution in parallel.
SingleLoopOneAccess ==
  /\ nest = <<BaseLoop(1, 1)>>
  /\ AccessInfo

\* C26: after optimizeLevel every dimension of every mapping of a parallel
\* item is unbound or bound to an induction variable of the item, positive
\* iff the governing coefficient is not negative; it is bound iff an affine
\* access to the array in the nest has a coefficient which is not zero at
\* an induction variable of the item in this dimension, and the binding is
\* the one of the first such access. A single loop i with the access A[i]
\* and no dependence gets one item of dimension one with the mapping A[i]
\* and no across clause.
C26_MappingFollowsAccesses ==
  (parPc \in {"done", "inserted"} /\ PI # NoItem) =>
    /\ \A array \in DOMAIN PI.DirectAccess :
         \A d \in DOMAIN PI.DirectAccess[array] :
           LET Map == PI.DirectAccess[array][d]
               Q == BindingSubscripts(array, d)
           IN  /\ Map.first # NullID <=> Q # {}
               /\ Map.first # NullID =>
                    /\ Map.first \in Range(PI.Induction)
                    /\ Map.first = GoverningMonom(FirstBinding(Q)).Column
                    /\ Map.second <=> GoverningMonom(FirstBinding(Q)).Value >= 0
    /\ SingleLoopOneAccess =>
         /\ PI.Induction = <<1>>
         /\ DOMAIN PI.DirectAccess = {"A"}
         /\ PI.DirectAccess["A"] = <<[first |-> 1, second |-> TRUE]>>
         /\ PI.Dependence = EmptyMap
         /\ parPc = "inserted" =>
              /\ Cardinality(ParallelTexts) = 1
              /\ \A text \in ParallelTexts :
                   /\ SubSeq(text, 1, 13)
                        = <<"#pragma dvm parallel", "(", "[", "i", "]", ")",
                            " tie", "(", "A", "[", "i", "]", ")">>
                   /\ "across(" \notin Range(text)

\* Two accesses A[i][j] and A[j][i] in a nest of two loops of one item: both
\* dimensions are bound by the first access and kept when the second one,
\* which has other induction variables in them, is looked at.
C26_BoundDimensionKept ==
  /\ parPc = "done"
  /\ PI # NoItem
  /\ PI.Induction = <<1, 2>>
  /\ Len(MappedAccesses) = 2
  /\ "A" \in DOMAIN PI.DirectAccess
  /\ PI.DirectAccess["A"] = <<[first |-> 1, second |-> TRUE],
                              [first |-> 2, second |-> TRUE]>>
  /\ <<2, 1>> \in BindingSubscripts("A", 1)
  /\ MappedAccesses[2].subs[1].monoms[1].Column = 2


(***************************************************************************)
(* C27: exploitParallelism which does not extend the item.                 *)
(***************************************************************************)
\* exploitParallelism is called with an item and returns it with the
\* inductions it had.
ExtensionFailed == CalledWithItem /\ PI'.Induction = PI.Induction

\* C27: when exploitParallelism does not extend the item it is called with,
\* the item is final after the call, its inductions, its across map, its
\* reductions and its possible across depth are the ones before the call,
\* and every private variable it held before the call is held after it.
C27_FailedExtensionKeepsClauses ==
  [][ExtensionFailed =>
       /\ PI'.final
       /\ PI'.Dependence = PI.Dependence
       /\ PI'.Reduction = PI.Reduction
       /\ PI'.PossibleAcrossDepth = PI.PossibleAcrossDepth
       /\ PI.Private \subseteq PI'.Private]_vars


(***************************************************************************)
(* C28: the locations registered by exploitParallelism and what            *)
(* runOnModule writes for them.                                            *)
(***************************************************************************)
\* The loops of the nest by their identifiers.
LoopIDs == {nest[k].id : k \in DOMAIN nest}

\* The kinds of the items recorded in Entry and in Exit for the loop.
EntryKindsOf(id) ==
  UNION {Range(mParallelizationInfo[i].Entry) :
           i \in {j \in DOMAIN mParallelizationInfo :
                    mParallelizationInfo[j].Anchor = id}}

ExitKindsOf(id) ==
  UNION {Range(mParallelizationInfo[i].Exit) :
           i \in {j \in DOMAIN mParallelizationInfo :
                    mParallelizationInfo[j].Anchor = id}}

\* The sequences [Actual?, Region?, Parallel].
EntryShapes ==
  {<<"parallel">>, <<"region", "parallel">>, <<"actual", "parallel">>,
   <<"actual", "region", "parallel">>}

\* The sequences of a marker and/or a GetActual item, and the empty one.
ExitShapes ==
  {<<>>, <<"marker">>, <<"get_actual">>, <<"marker", "get_actual">>,
   <<"get_actual", "marker">>}

\* The number of the texts written whose first token is tok.
TextsStartingWith(tok) ==
  Cardinality(
    {p \in UNION {{<<off, k>> : k \in DOMAIN parRewriter[off]} :
                    off \in DOMAIN parRewriter} :
       parRewriter[p[1]][p[2]][1] = tok})

\* The number of the texts which open a region: they end with the brace.
RegionsOpened ==
  Cardinality(
    {p \in UNION {{<<off, k>> : k \in DOMAIN parRewriter[off]} :
                    off \in DOMAIN parRewriter} :
       "\n{" \in Range(parRewriter[p[1]][p[2]])})

\* C28: every location of mParallelizationInfo is anchored to a loop; Entry
\* of the location of the header of the loop is [Actual?, Region?, Parallel]
\* with one parallel item, Entry of another location is empty; Exit holds
\* only a closing marker and/or a GetActual item; a closing marker is
\* recorded for a loop iff a region is recorded for it. So runOnModule
\* finds no item of an unknown kind and writes one closing brace for every
\* region opened.
C28_LocationsWellFormed ==
  /\ \A i \in DOMAIN mParallelizationInfo :
       LET PL == mParallelizationInfo[i]
       IN  /\ PL.Anchor \in LoopIDs
           /\ IF PL.Block = <<"header", PL.Anchor>>
              THEN PL.Entry \in EntryShapes
              ELSE PL.Entry = <<>>
           /\ PL.Exit \in ExitShapes
  /\ \A id \in LoopIDs :
       "marker" \in ExitKindsOf(id) <=> "region" \in EntryKindsOf(id)
  /\ parPc = "inserted" =>
       /\ TextsStartingWith("}") = RegionsOpened
       /\ RegionsOpened
            = Cardinality({id \in LoopIDs : "region" \in EntryKindsOf(id)})

\* The loop leaves through a block which is not its header: the region is
\* recorded at the header, its closing marker at the exiting block, and
\* both braces are written.
C28_RegionClosedAtExitingBlock ==
  /\ parPc = "inserted"
  /\ Len(mParallelizationInfo) = 2
  /\ mParallelizationInfo[1].Entry = <<"actual", "region", "parallel">>
  /\ mParallelizationInfo[1].Exit = <<>>
  /\ mParallelizationInfo[2].Block # mParallelizationInfo[1].Block
  /\ mParallelizationInfo[2].Exit = <<"marker", "get_actual">>
  /\ RegionsOpened = 1
  /\ TextsStartingWith("}") = 1


(***************************************************************************)
(* C29: the representations of a file the pass writes into.                *)
(***************************************************************************)
\* The locations at which a text has been inserted.
WrittenLocs == {l \in FileLocs : rewriter[l] # <<>>}

\* The locations which are keys of mInsertedDirs.
InsertedDirLocs == {l \in FileLocs : mInsertedDirs[l] # NoDir}

CheckStep == pc = "align" /\ pc' = "distribute"

\* The diagnostics reported by the step.
NewDiags == {diags'[i] : i \in (Len(diags) + 1)..Len(diags')}

\* The variables with an align rule, the parameters among them.
RuleVars == {unit.alignRules[i].var : i \in RuleIdxs(unit)}

\* A directive has been inserted at the position of the file, whatever its
\* representation.
DirectiveAtPosition(Loc) ==
  \E l \in FileLocs : PhysOf(l) = PhysOf(Loc) /\ mInsertedDirs[l] # NoDir

\* The redeclarations <<variable, redeclaration>> of the variables without
\* a rule which start outside of a macro at a position where a directive
\* has been inserted.
CorruptedRedecls ==
  {p \in UNION {{<<v, k>> : k \in DOMAIN unit.vars[v].redecls} :
                  v \in DOMAIN unit.vars} :
     LET R == unit.vars[p[1]].redecls[p[2]]
     IN  /\ unit.vars[p[1]].name \notin RuleVars
         /\ ~isMacroID(R.start)
         /\ DirectiveAtPosition(R.start)}

\* C30: checkNotDistributedDecls reports err_apc_not_distr_decl_directive
\* for every redeclaration of a variable without an align rule which starts
\* outside of a macro at a position where a directive has been inserted,
\* and for nothing else: no report stands for a variable with a rule alone.
\* It inserts no text and leaves the ledger as it was.
C30_CorruptedRedeclsReported ==
  [][CheckStep =>
       /\ rewriter' = rewriter
       /\ mInsertedDirs' = mInsertedDirs
       /\ mTransformedFiles' = mTransformedFiles
       /\ log' = log
       /\ \A p \in CorruptedRedecls :
            \E D \in NewDiags :
              /\ D.id = "err_apc_not_distr_decl_directive"
              /\ PhysOf(D.loc) = PhysOf(unit.vars[p[1]].redecls[p[2]].start)
       /\ \A D \in NewDiags :
            /\ D.id = "err_apc_not_distr_decl_directive"
            /\ \E p \in CorruptedRedecls :
                 PhysOf(D.loc) = PhysOf(unit.vars[p[1]].redecls[p[2]].start)
       /\ Len(diags') - Len(diags) = Cardinality(CorruptedRedecls)]_vars

\* The check is over: X, which has no rule, stands in the representation of
\* the include file which is not the recorded one, at the offset of the
\* align directive of A, and is reported; nothing is reported twice.
C30_OtherRepresentationReported ==
  /\ pc = "distribute"
  /\ \E v \in DOMAIN unit.vars :
       /\ unit.vars[v].name = "X"
       /\ ~isMacroID(unit.vars[v].redecls[1].start)
       /\ IsIncludeFile(unit.vars[v].redecls[1].start.fid)
       /\ mTransformedFiles["h.h"] = OtherRepresentation(unit.vars[v].redecls[1].start.fid)
       /\ mInsertedDirs[[unit.vars[v].redecls[1].start EXCEPT
                           !.fid = OtherRepresentation(@)]] # NoDir
  /\ Cardinality({i \in DOMAIN diags :
                    diags[i].id = "err_apc_not_distr_decl_directive"}) = 1

====
